---------------------------- MODULE Spec2Model ----------------------------
(***************************************************************************)
(* Model of the algorithm visualizer (src/main.c): the trace buffer        *)
(* (steps, step_count), the structures under trace (array, stack, queue,   *)
(* binary search tree) and the instrumented operations that append steps.  *)
(*                                                                         *)
(* C arrays are functions over 0..n-1, so that every index of the model is *)
(* the index of the source.  A NULL pointer is the empty tuple.  A tree    *)
(* node is the tuple <<data, left, right>>.  A description built by        *)
(* sprintf is the tuple of its format string and its arguments.            *)
(***************************************************************************)
EXTENDS Integers, Sequences, FiniteSets, TLC

(* ------------------------------------------------------------------ *)
(* Program constants                                                    *)
(* ------------------------------------------------------------------ *)
MAX_SIZE == 100
MAX_STEPS == 1000
MIN_ARRAY_SIZE == 1
MAX_ARRAY_SIZE == 50
NPOINTERS == 10

(* ------------------------------------------------------------------ *)
(* Bounds of the model                                                  *)
(* ------------------------------------------------------------------ *)
MaxLen == 3        \* longest enumerated input array
MaxVal == 3        \* enumerated element values are 1..MaxVal
MaxStackCalls == 4 \* push/pop calls per run
MaxQueueCalls == 4 \* enqueue/dequeue calls per run
MaxBstCalls == 3   \* insert_bst calls per run
MaxBstVal == 3     \* inserted values are 1..MaxBstVal
MaxListCalls == 2  \* list insertions per run
MaxListVal == 1    \* list values are 1..MaxListVal
MaxCellVal == 2    \* pushed and enqueued values are 1..MaxCellVal
MaxLongCalls == 3  \* calls of a long run, the fill included
Slack == 1         \* a long run fills to within Slack of MAX_SIZE
MaxCap == 3        \* small buffer capacities are 0..MaxCap

NULL == <<>>
Unbounded == 1000000   \* capacity of the reference (never filled) trace buffer

VARIABLES
    steps,    \* Step steps[MAX_STEPS], the first step_count entries
    arr,      \* main's int arr[MAX_SIZE], the first size entries
    root,     \* TreeNode* root
    stack,    \* Stack stack
    queue,    \* Queue queue
    head,     \* ListNode* head
    doc,      \* the trace document written by write_json_output (NULL: none)
    config,   \* the config document written by write_config (NULL: none)
    returned, \* <<code>> once main has returned code (NULL: main is running)
    overrun,  \* indices beyond a local array that a call wrote to
    family,   \* main's choice of structure ("none" before the first call)
    log,      \* the calls made so far: operation, argument, return value, notice
    frame     \* the local variables of the call in progress, when the run is
              \* followed one loop iteration at a time (op "none": no call)

vars == <<steps, arr, root, head, stack, queue, doc, config, returned, overrun, family, log,
          frame>>

step_count == Len(steps)

Min(a, b) == IF a < b THEN a ELSE b

Size(a) == Cardinality(DOMAIN a)

Zeros == [i \in 0..(MAX_SIZE - 1) |-> 0]

(* Always TRUE.  A loop tests it so that the buffer is computed at every     *)
(* iteration instead of being left as a chain of suspended add_step calls.  *)
Ready(buf) == Len(buf) >= 0

(* for (j = lo; j < hi; j++) st = Body(j, st), where the loop state st is  *)
(* a record with the buffer in st.buf.  The range is run in two halves,    *)
(* the first computed before the second starts, which keeps the depth of   *)
(* evaluation logarithmic in the number of iterations.  A while loop is    *)
(* a for loop over its largest number of iterations whose body does        *)
(* nothing once the loop condition is false.                               *)
For(Body(_, _), st, lo, hi) ==
    LET RECURSIVE run(_, _, _)
        RECURSIVE rest(_, _, _)
        run(s, l, h) ==
            IF h - l <= 0 THEN s
            ELSE IF h - l = 1 THEN Body(l, s)
            ELSE rest(run(s, l, (l + h) \div 2), (l + h) \div 2, h)
        rest(s, l, h) == IF Ready(s.buf) THEN run(s, l, h) ELSE s
    IN  run(st, lo, hi)

(* A C array literal of n entries *)
ArrayOf(s) == [i \in 0..(Len(s) - 1) |-> s[i + 1]]

(* The pointer a + k *)
Offset(a, k) == [i \in 0..(MAX_SIZE - 1 - k) |-> a[i + k]]

(* int pointers[10] = {s[1], ..., -1, ..., -1} *)
Pointers(s) == [i \in 0..(NPOINTERS - 1) |-> IF i < Len(s) THEN s[i + 1] ELSE -1]

(* ------------------------------------------------------------------ *)
(* add_step: the trace buffer (cap is MAX_STEPS in the program)         *)
(* ------------------------------------------------------------------ *)
add_step_overwrite(cap, buf, action, data, size, highlighted, pointers, desc, complexity) ==
    LET s == [action |-> action,
              size |-> size,
              data |-> [i \in 0..(Min(size, MAX_SIZE) - 1) |-> data[i]],
              highlighted |-> [i \in 0..(Min(size, MAX_SIZE) - 1) |->
                                 IF highlighted = NULL THEN 0 ELSE highlighted[i]],
              pointers |-> [i \in 0..(NPOINTERS - 1) |->
                                 IF pointers = NULL THEN -1 ELSE pointers[i]],
              description |-> desc,
              complexity |-> complexity]
    IN  IF Len(buf) >= cap THEN [buf EXCEPT ![cap] = s] ELSE Append(buf, s)

add_step(cap, buf, action, data, size, highlighted, pointers, desc, complexity) ==
    IF Len(buf) >= cap THEN buf
    ELSE Append(buf,
           [action |-> action,
            size |-> size,
            data |-> [i \in 0..(Min(size, MAX_SIZE) - 1) |-> data[i]],
            highlighted |-> [i \in 0..(Min(size, MAX_SIZE) - 1) |->
                               IF highlighted = NULL THEN 0 ELSE highlighted[i]],
            pointers |-> [i \in 0..(NPOINTERS - 1) |->
                               IF pointers = NULL THEN -1 ELSE pointers[i]],
            description |-> desc,
            complexity |-> complexity])

(* a swap that loses the value of a[i] *)
swap_lossy(a, i, j) == [a EXCEPT ![i] = a[j]]

(* swap(&arr[i], &arr[j]) *)
swap(a, i, j) == [a EXCEPT ![i] = a[j], ![j] = a[i]]

(* ------------------------------------------------------------------ *)
(* bubble_sort; the loop state is [arr, buf]                            *)
(* ------------------------------------------------------------------ *)
bubble_compare(cap, size, j, st) ==
    add_step(cap, st.buf, "BUBBLE_COMPARE", st.arr, size,
             [Zeros EXCEPT ![j] = 1, ![j + 1] = 1], NULL,
             <<"Comparing arr[%d]=%d and arr[%d]=%d", j, st.arr[j], j + 1, st.arr[j + 1]>>,
             "O(n^2)")

(* an inner loop body that swaps without recording the swap *)
bubble_inner_silent(cap, size, j, st) ==
    IF st.arr[j] > st.arr[j + 1]
    THEN [arr |-> swap(st.arr, j, j + 1), buf |-> bubble_compare(cap, size, j, st)]
    ELSE [arr |-> st.arr, buf |-> bubble_compare(cap, size, j, st)]

(* the body of the inner loop *)
bubble_inner(cap, size, j, st) ==
    IF st.arr[j] > st.arr[j + 1]
    THEN [arr |-> swap(st.arr, j, j + 1),
          buf |-> add_step(cap, bubble_compare(cap, size, j, st), "BUBBLE_SWAP",
                           swap(st.arr, j, j + 1), size,
                           [Zeros EXCEPT ![j] = 2, ![j + 1] = 2], NULL,
                           <<"Elements swapped">>, "O(n^2)")]
    ELSE [arr |-> st.arr, buf |-> bubble_compare(cap, size, j, st)]

(* an outer loop that gives up once the buffer is full *)
bubble_outer_abort(cap, size, i, st) ==
    IF Len(st.buf) >= cap
    THEN st
    ELSE For(LAMBDA j, s : bubble_inner(cap, size, j, s), st, 0, size - i - 1)

(* the body of the outer loop *)
bubble_outer(cap, size, i, st) ==
    For(LAMBDA j, s : bubble_inner(cap, size, j, s), st, 0, size - i - 1)

bubble_complete(cap, size, r) ==
    [arr |-> r.arr,
     buf |-> add_step(cap, r.buf, "BUBBLE_COMPLETE", r.arr, size, Zeros, NULL,
                      <<"Bubble sort completed">>, "O(n^2)")]

bubble_sort(cap, a, size, buf) ==
    bubble_complete(cap, size,
        For(LAMBDA i, s : bubble_outer(cap, size, i, s),
            [arr |-> a, buf |-> buf], 0, size - 1))

(* ------------------------------------------------------------------ *)
(* selection_sort; the loop state is [arr, min_idx, buf]                *)
(* ------------------------------------------------------------------ *)
(* the body of the inner loop *)
(* an inner loop body that tags the pass position after the minimum *)
selection_inner_examined(cap, size, i, j, st) ==
    [arr     |-> st.arr,
     min_idx |-> IF st.arr[j] < st.arr[st.min_idx] THEN j ELSE st.min_idx,
     buf     |-> add_step(cap, st.buf, "SELECTION_COMPARE", st.arr, size,
                          [Zeros EXCEPT ![st.min_idx] = 2, ![i] = 1, ![j] = 3], NULL,
                          <<"Comparing with element at index %d", j>>, "O(n^2)")]

selection_inner(cap, size, i, j, st) ==
    [arr     |-> st.arr,
     min_idx |-> IF st.arr[j] < st.arr[st.min_idx] THEN j ELSE st.min_idx,
     buf     |-> add_step(cap, st.buf, "SELECTION_COMPARE", st.arr, size,
                          [Zeros EXCEPT ![i] = 1, ![st.min_idx] = 2, ![j] = 3], NULL,
                          <<"Comparing with element at index %d", j>>, "O(n^2)")]

(* the outer loop's body after its inner loop, whose result is r *)
selection_swap(cap, size, i, r) ==
    IF r.min_idx # i
    THEN [arr     |-> swap(r.arr, i, r.min_idx),
          min_idx |-> r.min_idx,
          buf     |-> add_step(cap, r.buf, "SELECTION_SWAP", swap(r.arr, i, r.min_idx),
                               size, [Zeros EXCEPT ![i] = 2, ![r.min_idx] = 2], NULL,
                               <<"Swapped minimum element">>, "O(n^2)")]
    ELSE r

(* the body of the outer loop *)
selection_outer(cap, size, i, st) ==
    selection_swap(cap, size, i,
        For(LAMBDA j, s : selection_inner(cap, size, i, j, s),
            [arr     |-> st.arr,
             min_idx |-> i,
             buf     |-> add_step(cap, st.buf, "SELECTION_START", st.arr, size,
                                  [Zeros EXCEPT ![i] = 1], NULL,
                                  <<"Starting new pass">>, "O(n^2)")],
            i + 1, size))

selection_complete(cap, size, r) ==
    [arr |-> r.arr,
     buf |-> add_step(cap, r.buf, "SELECTION_COMPLETE", r.arr, size, Zeros, NULL,
                      <<"Selection sort completed">>, "O(n^2)")]

selection_sort(cap, a, size, buf) ==
    selection_complete(cap, size,
        For(LAMBDA i, s : selection_outer(cap, size, i, s),
            [arr |-> a, min_idx |-> 0, buf |-> buf], 0, size - 1))

(* ------------------------------------------------------------------ *)
(* insertion_sort; the loop state is [arr, j, buf]                      *)
(* ------------------------------------------------------------------ *)
(* while (j >= 0 && arr[j] > key): one iteration *)
insertion_shift(cap, size, key, st) ==
    IF st.j >= 0 /\ st.arr[st.j] > key
    THEN [arr |-> [st.arr EXCEPT ![st.j + 1] = st.arr[st.j]],
          j   |-> st.j - 1,
          buf |-> add_step(cap, st.buf, "INSERTION_SHIFT",
                           [st.arr EXCEPT ![st.j + 1] = st.arr[st.j]], size,
                           [Zeros EXCEPT ![st.j] = 1, ![st.j + 1] = 2], NULL,
                           <<"Shifting element right">>, "O(n^2)")]
    ELSE st

(* the outer loop's body after its while loop, whose result is r *)
insertion_place(cap, size, key, r) ==
    [arr |-> [r.arr EXCEPT ![r.j + 1] = key],
     j   |-> r.j,
     buf |-> add_step(cap, r.buf, "INSERTION_PLACE", [r.arr EXCEPT ![r.j + 1] = key],
                      size, [Zeros EXCEPT ![r.j + 1] = 2], NULL,
                      <<"Element placed in correct position">>, "O(n^2)")]

(* the body of the outer loop; the while loop runs at most i times *)
insertion_outer(cap, size, i, st) ==
    insertion_place(cap, size, st.arr[i],
        For(LAMBDA t, s : insertion_shift(cap, size, st.arr[i], s),
            [arr |-> st.arr,
             j   |-> i - 1,
             buf |-> add_step(cap, st.buf, "INSERTION_START", st.arr, size,
                              [Zeros EXCEPT ![i] = 1], NULL,
                              <<"Inserting element %d", st.arr[i]>>, "O(n^2)")],
            0, i))

insertion_complete(cap, size, r) ==
    [arr |-> r.arr,
     buf |-> add_step(cap, r.buf, "INSERTION_COMPLETE", r.arr, size, Zeros, NULL,
                      <<"Insertion sort completed">>, "O(n^2)")]

insertion_sort(cap, a, size, buf) ==
    insertion_complete(cap, size,
        For(LAMBDA i, s : insertion_outer(cap, size, i, s),
            [arr |-> a, j |-> 0, buf |-> buf], 1, size))

(* ------------------------------------------------------------------ *)
(* quick sort: partition, quick_sort, quick_sort_wrapper                *)
(* ------------------------------------------------------------------ *)
partition_compare(cap, st, j, low, high, original_size, pivot) ==
    add_step(cap, st.buf, "QUICK_COMPARE", st.arr, original_size,
             IF st.i >= low
             THEN [Zeros EXCEPT ![high] = 3, ![j] = 1, ![st.i] = 2]
             ELSE [Zeros EXCEPT ![high] = 3, ![j] = 1],
             NULL, <<"Comparing %d with pivot %d", st.arr[j], pivot>>, "O(n log n)")

(* a loop body that also moves the values equal to the pivot to its left *)
partition_body_le(cap, st, j, low, high, original_size, pivot) ==
    IF st.arr[j] <= pivot
    THEN IF st.i + 1 # j
         THEN [arr |-> swap(st.arr, st.i + 1, j),
               i   |-> st.i + 1,
               buf |-> add_step(cap,
                         add_step(cap,
                           partition_compare(cap, st, j, low, high, original_size, pivot),
                           "QUICK_SWAP_BEFORE", st.arr, original_size,
                           [Zeros EXCEPT ![st.i + 1] = 2, ![j] = 2, ![high] = 3], NULL,
                           <<"Swapping %d and %d", st.arr[st.i + 1], st.arr[j]>>,
                           "O(n log n)"),
                         "QUICK_SWAP_AFTER", swap(st.arr, st.i + 1, j), original_size,
                         [Zeros EXCEPT ![st.i + 1] = 2, ![j] = 2, ![high] = 3], NULL,
                         <<"Elements swapped">>, "O(n log n)")]
         ELSE [arr |-> st.arr,
               i   |-> st.i + 1,
               buf |-> partition_compare(cap, st, j, low, high, original_size, pivot)]
    ELSE [arr |-> st.arr,
          i   |-> st.i,
          buf |-> partition_compare(cap, st, j, low, high, original_size, pivot)]

(* a loop body that records the swap steps even when i == j *)
partition_body_always(cap, st, j, low, high, original_size, pivot) ==
    IF st.arr[j] < pivot
    THEN [arr |-> swap(st.arr, st.i + 1, j),
          i   |-> st.i + 1,
          buf |-> add_step(cap,
                    add_step(cap,
                      partition_compare(cap, st, j, low, high, original_size, pivot),
                      "QUICK_SWAP_BEFORE", st.arr, original_size,
                      [Zeros EXCEPT ![st.i + 1] = 2, ![j] = 2, ![high] = 3], NULL,
                      <<"Swapping %d and %d", st.arr[st.i + 1], st.arr[j]>>,
                      "O(n log n)"),
                    "QUICK_SWAP_AFTER", swap(st.arr, st.i + 1, j), original_size,
                    [Zeros EXCEPT ![st.i + 1] = 2, ![j] = 2, ![high] = 3], NULL,
                    <<"Elements swapped">>, "O(n log n)")]
    ELSE [arr |-> st.arr,
          i   |-> st.i,
          buf |-> partition_compare(cap, st, j, low, high, original_size, pivot)]

(* the body of partition's loop; the loop state is [arr, i, buf] *)
partition_body(cap, st, j, low, high, original_size, pivot) ==
    IF st.arr[j] < pivot
    THEN IF st.i + 1 # j
         THEN [arr |-> swap(st.arr, st.i + 1, j),
               i   |-> st.i + 1,
               buf |-> add_step(cap,
                         add_step(cap,
                           partition_compare(cap, st, j, low, high, original_size, pivot),
                           "QUICK_SWAP_BEFORE", st.arr, original_size,
                           [Zeros EXCEPT ![st.i + 1] = 2, ![j] = 2, ![high] = 3], NULL,
                           <<"Swapping %d and %d", st.arr[st.i + 1], st.arr[j]>>,
                           "O(n log n)"),
                         "QUICK_SWAP_AFTER", swap(st.arr, st.i + 1, j), original_size,
                         [Zeros EXCEPT ![st.i + 1] = 2, ![j] = 2, ![high] = 3], NULL,
                         <<"Elements swapped">>, "O(n log n)")]
         ELSE [arr |-> st.arr,
               i   |-> st.i + 1,
               buf |-> partition_compare(cap, st, j, low, high, original_size, pivot)]
    ELSE [arr |-> st.arr,
          i   |-> st.i,
          buf |-> partition_compare(cap, st, j, low, high, original_size, pivot)]

(* partition after its loop, whose result is r *)
(* a placement that copies the pivot over arr[i + 1] instead of swapping *)
partition_place_copy(cap, r, high, original_size) ==
    [arr |-> [r.arr EXCEPT ![r.i + 1] = r.arr[high]],
     pi  |-> r.i + 1,
     buf |-> add_step(cap,
               add_step(cap, r.buf, "QUICK_PIVOT_PLACE_BEFORE", r.arr, original_size,
                        [Zeros EXCEPT ![r.i + 1] = 2, ![high] = 2, ![high] = 3], NULL,
                        <<"Placing pivot in final position: swapping %d and %d",
                          r.arr[r.i + 1], r.arr[high]>>, "O(n log n)"),
               "QUICK_PIVOT_PLACE_AFTER", [r.arr EXCEPT ![r.i + 1] = r.arr[high]],
               original_size,
               [Zeros EXCEPT ![r.i + 1] = 2, ![high] = 2, ![high] = 3], NULL,
               <<"Pivot placed in correct position">>, "O(n log n)")]

partition_place(cap, r, high, original_size) ==
    [arr |-> swap(r.arr, r.i + 1, high),
     pi  |-> r.i + 1,
     buf |-> add_step(cap,
               add_step(cap, r.buf, "QUICK_PIVOT_PLACE_BEFORE", r.arr, original_size,
                        [Zeros EXCEPT ![r.i + 1] = 2, ![high] = 2, ![high] = 3], NULL,
                        <<"Placing pivot in final position: swapping %d and %d",
                          r.arr[r.i + 1], r.arr[high]>>, "O(n log n)"),
               "QUICK_PIVOT_PLACE_AFTER", swap(r.arr, r.i + 1, high), original_size,
               [Zeros EXCEPT ![r.i + 1] = 2, ![high] = 2, ![high] = 3], NULL,
               <<"Pivot placed in correct position">>, "O(n log n)")]

(* the result is [arr, pi, buf], pi being the value returned *)
partition(cap, a, low, high, original_size, buf) ==
    partition_place(cap,
        For(LAMBDA j, s : partition_body(cap, s, j, low, high, original_size, a[high]),
            [arr |-> a,
             i   |-> low - 1,
             buf |-> add_step(cap, buf, "QUICK_PIVOT_SELECT", a, original_size,
                              [Zeros EXCEPT ![high] = 3], NULL,
                              <<"Selected pivot: %d at index %d", a[high], high>>,
                              "O(n log n)")],
            low, high),
        high, original_size)

(* quick_sort's recursion runs on its call stack, kept in the state        *)
(* [arr, buf, calls].  A frame of calls is a call of quick_sort(low, high) *)
(* that has not started (pc "call") or one that waits for its first        *)
(* recursive call to return (pc "left", with its pi).                     *)
Frame(pc, low, high, pi) == [pc |-> pc, low |-> low, high |-> high, pi |-> pi]

subarray_highlight(low, high) ==
    [i \in 0..(MAX_SIZE - 1) |-> IF low <= i /\ i <= high THEN 1 ELSE 0]

(* a call starts with low < high: from its first line to its first         *)
(* recursive call; p is partition's result                                 *)
quick_sort_enter(cap, original_size, f, callers, p) ==
    [arr   |-> p.arr,
     buf   |-> add_step(cap,
                 add_step(cap, p.buf, "QUICK_PIVOT_FINAL", p.arr, original_size,
                          [Zeros EXCEPT ![p.pi] = 3], NULL,
                          <<"Pivot %d is now in its final position at index %d",
                            p.arr[p.pi], p.pi>>, "O(n log n)"),
                 "QUICK_RECURSIVE_LEFT", p.arr, original_size,
                 subarray_highlight(f.low, f.high), NULL,
                 <<"Recursively sorting left subarray [%d-%d]", f.low, p.pi - 1>>,
                 "O(n log n)"),
     calls |-> <<Frame("call", f.low, p.pi - 1, -1),
                 Frame("left", f.low, f.high, p.pi)>> \o callers]

(* the first recursive call has returned: up to the second, a tail call *)
quick_sort_resume(cap, original_size, f, callers, st) ==
    [arr   |-> st.arr,
     buf   |-> add_step(cap, st.buf, "QUICK_RECURSIVE_RIGHT", st.arr, original_size,
                        subarray_highlight(f.low, f.high), NULL,
                        <<"Recursively sorting right subarray [%d-%d]", f.pi + 1, f.high>>,
                        "O(n log n)"),
     calls |-> <<Frame("call", f.pi + 1, f.high, -1)>> \o callers]

(* the frame on top of the call stack runs to its next call or return *)
quick_sort_step(cap, original_size, st) ==
    IF st.calls = <<>> THEN st
    ELSE IF Head(st.calls).pc = "left"
    THEN quick_sort_resume(cap, original_size, Head(st.calls), Tail(st.calls), st)
    ELSE IF Head(st.calls).low < Head(st.calls).high
    THEN quick_sort_enter(cap, original_size, Head(st.calls), Tail(st.calls),
            partition(cap, st.arr, Head(st.calls).low, Head(st.calls).high, original_size,
               add_step(cap, st.buf, "QUICK_SUBARRAY", st.arr, original_size,
                        subarray_highlight(Head(st.calls).low, Head(st.calls).high), NULL,
                        <<"Processing subarray from index %d to %d",
                          Head(st.calls).low, Head(st.calls).high>>, "O(n log n)")))
    ELSE [arr |-> st.arr, buf |-> st.buf, calls |-> Tail(st.calls)]

(* quick_sort(arr, low, high, original_size), to its return: a call on at  *)
(* most n = high - low + 1 elements makes at most 2n + 1 calls, n of which *)
(* reach their second recursive call, which is 3n + 1 steps of the stack.  *)
quick_sort(cap, a, low, high, original_size, buf) ==
    For(LAMBDA t, s : quick_sort_step(cap, original_size, s),
        [arr |-> a, buf |-> buf, calls |-> <<Frame("call", low, high, -1)>>],
        0, 3 * (high - low + 1) + 1)

quick_sort_complete(cap, r, size) ==
    [arr |-> r.arr,
     buf |-> add_step(cap, r.buf, "QUICK_COMPLETE", r.arr, size, Zeros, NULL,
                      <<"Quick Sort Completed - Array is sorted">>, "O(n log n)")]

quick_sort_wrapper(cap, a, size, buf) ==
    quick_sort_complete(cap,
        quick_sort(cap, a, 0, size - 1, size,
            add_step(cap, buf, "QUICK_START", a, size, Zeros, NULL,
                     <<"Starting Quick Sort Algorithm">>, "O(n log n)")),
        size)

(* ------------------------------------------------------------------ *)
(* merge sort: merge, merge_sort, merge_sort_wrapper.  The state is     *)
(* [arr, orig, i, j, k, buf]: arr is the working copy (temp) and orig   *)
(* the caller's array (original_arr)                                    *)
(* ------------------------------------------------------------------ *)
merge_compare(cap, original_size, left, mid, left_arr, right_arr, st) ==
    add_step(cap, st.buf, "MERGE_COMPARE", st.orig, original_size,
             [Zeros EXCEPT ![left + st.i] = 1, ![mid + 1 + st.j] = 2], NULL,
             <<"Comparing %d (left) and %d (right)", left_arr[st.i], right_arr[st.j]>>,
             "O(n log n)")

(* while (i < n1 && j < n2): one iteration *)
merge_both(cap, original_size, left, mid, left_arr, right_arr, st) ==
    IF st.i < Size(left_arr) /\ st.j < Size(right_arr)
    THEN IF left_arr[st.i] <= right_arr[st.j]
         THEN [arr  |-> [st.arr EXCEPT ![st.k] = left_arr[st.i]],
               orig |-> [st.orig EXCEPT ![st.k] = left_arr[st.i]],
               i    |-> st.i + 1,
               j    |-> st.j,
               k    |-> st.k + 1,
               buf  |-> add_step(cap,
                          merge_compare(cap, original_size, left, mid, left_arr, right_arr, st),
                          "MERGE_TAKE_LEFT", st.orig, original_size,
                          [Zeros EXCEPT ![st.k] = 3], NULL,
                          <<"Taking %d from left subarray", left_arr[st.i]>>, "O(n log n)")]
         ELSE [arr  |-> [st.arr EXCEPT ![st.k] = right_arr[st.j]],
               orig |-> [st.orig EXCEPT ![st.k] = right_arr[st.j]],
               i    |-> st.i,
               j    |-> st.j + 1,
               k    |-> st.k + 1,
               buf  |-> add_step(cap,
                          merge_compare(cap, original_size, left, mid, left_arr, right_arr, st),
                          "MERGE_TAKE_RIGHT", st.orig, original_size,
                          [Zeros EXCEPT ![st.k] = 3], NULL,
                          <<"Taking %d from right subarray", right_arr[st.j]>>, "O(n log n)")]
    ELSE st

(* a copy of the left remainder that does not reach the visualized array *)
merge_rest_left_unseen(cap, original_size, left_arr, st) ==
    IF st.i < Size(left_arr)
    THEN [arr  |-> [st.arr EXCEPT ![st.k] = left_arr[st.i]],
          orig |-> st.orig,
          i    |-> st.i + 1,
          j    |-> st.j,
          k    |-> st.k + 1,
          buf  |-> add_step(cap, st.buf, "MERGE_COPY_LEFT", st.orig, original_size,
                            [Zeros EXCEPT ![st.k] = 3], NULL,
                            <<"Copying remaining element %d from left subarray",
                              left_arr[st.i]>>, "O(n log n)")]
    ELSE st

(* while (i < n1): one iteration *)
merge_rest_left(cap, original_size, left_arr, st) ==
    IF st.i < Size(left_arr)
    THEN [arr  |-> [st.arr EXCEPT ![st.k] = left_arr[st.i]],
          orig |-> [st.orig EXCEPT ![st.k] = left_arr[st.i]],
          i    |-> st.i + 1,
          j    |-> st.j,
          k    |-> st.k + 1,
          buf  |-> add_step(cap, st.buf, "MERGE_COPY_LEFT",
                            [st.orig EXCEPT ![st.k] = left_arr[st.i]], original_size,
                            [Zeros EXCEPT ![st.k] = 3], NULL,
                            <<"Copying remaining element %d from left subarray",
                              left_arr[st.i]>>, "O(n log n)")]
    ELSE st

(* while (j < n2): one iteration *)
merge_rest_right(cap, original_size, right_arr, st) ==
    IF st.j < Size(right_arr)
    THEN [arr  |-> [st.arr EXCEPT ![st.k] = right_arr[st.j]],
          orig |-> [st.orig EXCEPT ![st.k] = right_arr[st.j]],
          i    |-> st.i,
          j    |-> st.j + 1,
          k    |-> st.k + 1,
          buf  |-> add_step(cap, st.buf, "MERGE_COPY_RIGHT",
                            [st.orig EXCEPT ![st.k] = right_arr[st.j]], original_size,
                            [Zeros EXCEPT ![st.k] = 3], NULL,
                            <<"Copying remaining element %d from right subarray",
                              right_arr[st.j]>>, "O(n log n)")]
    ELSE st

(* merge's three loops, which run at most n1 + n2, n1 and n2 times *)
merge_loops(cap, original_size, left, mid, left_arr, right_arr, st) ==
    For(LAMBDA t, s : merge_rest_right(cap, original_size, right_arr, s),
        For(LAMBDA t, s : merge_rest_left(cap, original_size, left_arr, s),
            For(LAMBDA t, s : merge_both(cap, original_size, left, mid, left_arr, right_arr, s),
                st, 0, Size(left_arr) + Size(right_arr)),
            0, Size(left_arr)),
        0, Size(right_arr))

(* merge after its loops, whose result is r *)
merge_complete(cap, original_size, left, right, r) ==
    [arr  |-> r.arr,
     orig |-> r.orig,
     buf  |-> add_step(cap, r.buf, "MERGE_COMPLETE_SUB", r.orig, original_size,
                       [i \in 0..(MAX_SIZE - 1) |-> IF left <= i /\ i <= right THEN 4 ELSE 0],
                       NULL,
                       <<"Subarray [%d-%d] successfully merged and sorted", left, right>>,
                       "O(n log n)")]

halves_highlight(left, mid, right) ==
    [i \in 0..(MAX_SIZE - 1) |->
        IF left <= i /\ i <= mid THEN 1
        ELSE IF mid + 1 <= i /\ i <= right THEN 2 ELSE 0]

merge(cap, a, left, mid, right, o, original_size, buf) ==
    merge_complete(cap, original_size, left, right,
        merge_loops(cap, original_size, left, mid,
            [i \in 0..(mid - left) |-> a[left + i]],
            [j \in 0..(right - mid - 1) |-> a[mid + 1 + j]],
            [arr  |-> a,
             orig |-> o,
             i    |-> 0,
             j    |-> 0,
             k    |-> left,
             buf  |-> add_step(cap, buf, "MERGE_START", o, original_size,
                               halves_highlight(left, mid, right), NULL,
                               <<"Merging two sorted subarrays: Left[%d-%d] and Right[%d-%d]",
                                 left, mid, mid + 1, right>>, "O(n log n)")]))

RECURSIVE merge_sort(_, _, _, _, _, _, _)

(* merge_sort after its second recursive call, whose result is r *)
merge_sort_merge(cap, left, mid, right, original_size, r) ==
    IF Ready(r.buf)
    THEN merge(cap, r.arr, left, mid, right, r.orig, original_size,
               add_step(cap, r.buf, "MERGE_READY", r.orig, original_size,
                        halves_highlight(left, mid, right), NULL,
                        <<"Both halves sorted, ready to merge [%d-%d] and [%d-%d]",
                          left, mid, mid + 1, right>>, "O(n log n)"))
    ELSE r

(* merge_sort after its first recursive call, whose result is l *)
merge_sort_right(cap, left, mid, right, original_size, l) ==
    IF Ready(l.buf)
    THEN merge_sort_merge(cap, left, mid, right, original_size,
            merge_sort(cap, l.arr, mid + 1, right, l.orig, original_size,
                add_step(cap, l.buf, "MERGE_DIVIDE_RIGHT", l.orig, original_size,
                         [i \in 0..(MAX_SIZE - 1) |->
                             IF mid + 1 <= i /\ i <= right THEN 2 ELSE 0], NULL,
                         <<"Dividing: Right half [%d-%d]", mid + 1, right>>,
                         "O(n log n)")))
    ELSE l

(* merge_sort with left < right and mid computed *)
merge_sort_left(cap, a, left, mid, right, o, original_size, buf) ==
    merge_sort_right(cap, left, mid, right, original_size,
        merge_sort(cap, a, left, mid, o, original_size,
            add_step(cap, buf, "MERGE_DIVIDE_LEFT", o, original_size,
                     [i \in 0..(MAX_SIZE - 1) |-> IF left <= i /\ i <= mid THEN 1 ELSE 0],
                     NULL, <<"Dividing: Left half [%d-%d]", left, mid>>, "O(n log n)")))

merge_sort(cap, a, left, right, o, original_size, buf) ==
    IF Ready(buf) /\ left < right
    THEN merge_sort_left(cap, a, left, left + ((right - left) \div 2), right, o,
                         original_size, buf)
    ELSE [arr |-> a, orig |-> o, buf |-> buf]

(* copy_array(dest, src, size) *)
copy_array(dest, src, size) ==
    [i \in DOMAIN dest |-> IF i < size THEN src[i] ELSE dest[i]]

(* merge_sort_wrapper after the call of merge_sort, whose result is r *)
merge_sort_complete(cap, size, r) ==
    [arr |-> copy_array(r.orig, r.arr, size),
     buf |-> add_step(cap, r.buf, "MERGE_COMPLETE", copy_array(r.orig, r.arr, size), size,
                      Zeros, NULL, <<"Merge Sort Completed - Array is sorted">>,
                      "O(n log n)")]

merge_sort_wrapper(cap, a, size, buf) ==
    merge_sort_complete(cap, size,
        merge_sort(cap, copy_array(a, a, size), 0, size - 1, a, size,
            add_step(cap, buf, "MERGE_START", a, size, Zeros, NULL,
                     <<"Starting Merge Sort Algorithm">>, "O(n log n)")))

(* ------------------------------------------------------------------ *)
(* linear_search, binary_search                                         *)
(* ------------------------------------------------------------------ *)
linear_check(cap, a, size, i, buf) ==
    add_step(cap, buf, "LINEAR_SEARCH", a, size, [Zeros EXCEPT ![i] = 1], NULL,
             <<"Checking element at index %d: %d", i, a[i]>>, "O(n)")

(* a loop body that goes on scanning after it has found the target *)
linear_body_through(cap, a, size, target, i, st) ==
    IF a[i] = target
    THEN [returned |-> TRUE,
          buf |-> add_step(cap, linear_check(cap, a, size, i, st.buf),
                           "LINEAR_SEARCH_FOUND", a, size, [Zeros EXCEPT ![i] = 2], NULL,
                           <<"Target found!">>, "O(n)")]
    ELSE [returned |-> st.returned, buf |-> linear_check(cap, a, size, i, st.buf)]

(* the body of the loop; the state is [returned, buf], returned telling   *)
(* that the function has returned from inside the loop                   *)
linear_body(cap, a, size, target, i, st) ==
    IF st.returned THEN st
    ELSE IF a[i] = target
    THEN [returned |-> TRUE,
          buf |-> add_step(cap, linear_check(cap, a, size, i, st.buf),
                           "LINEAR_SEARCH_FOUND", a, size, [Zeros EXCEPT ![i] = 2], NULL,
                           <<"Target found!">>, "O(n)")]
    ELSE [returned |-> FALSE, buf |-> linear_check(cap, a, size, i, st.buf)]

(* linear_search after its loop, whose result is r *)
linear_not_found(cap, a, size, r) ==
    IF r.returned THEN r.buf
    ELSE add_step(cap, r.buf, "LINEAR_SEARCH_NOT_FOUND", a, size, Zeros, NULL,
                  <<"Target not found">>, "O(n)")

linear_search(cap, a, size, target, buf) ==
    [arr |-> a,
     buf |-> linear_not_found(cap, a, size,
                For(LAMBDA i, s : linear_body(cap, a, size, target, i, s),
                    [returned |-> FALSE, buf |-> buf], 0, size))]

(* pointers with right and mid exchanged *)
binary_pointers_swapped(left, right, mid) ==
    [i \in 0..(NPOINTERS - 1) |->
        IF i = 0 THEN left ELSE IF i = 1 THEN mid ELSE IF i = 2 THEN right ELSE -1]

binary_pointers(left, right, mid) ==
    [i \in 0..(NPOINTERS - 1) |->
        IF i = 0 THEN left ELSE IF i = 1 THEN right ELSE IF i = 2 THEN mid ELSE -1]

(* a BINARY_SEARCH step that tags left instead of mid *)
binary_check_left(cap, a, size, left, right, mid, buf) ==
    add_step(cap, buf, "BINARY_SEARCH", a, size, [Zeros EXCEPT ![left] = 1],
             binary_pointers(left, right, mid),
             <<"Checking middle element at index %d: %d", mid, a[mid]>>, "O(log n)")

binary_check(cap, a, size, left, right, mid, buf) ==
    add_step(cap, buf, "BINARY_SEARCH", a, size, [Zeros EXCEPT ![mid] = 1],
             binary_pointers(left, right, mid),
             <<"Checking middle element at index %d: %d", mid, a[mid]>>, "O(log n)")

RECURSIVE binary_loop(_, _, _, _, _, _, _)

(* the body of the loop, mid computed *)
binary_body(cap, a, size, target, left, right, mid, buf) ==
    IF a[mid] = target
    THEN add_step(cap, binary_check(cap, a, size, left, right, mid, buf),
                  "BINARY_SEARCH_FOUND", a, size, [Zeros EXCEPT ![mid] = 2],
                  binary_pointers(left, right, mid), <<"Target found!">>, "O(log n)")
    ELSE IF a[mid] < target
    THEN binary_loop(cap, a, size, target, mid + 1, right,
                     binary_check(cap, a, size, left, right, mid, buf))
    ELSE binary_loop(cap, a, size, target, left, mid - 1,
                     binary_check(cap, a, size, left, right, mid, buf))

(* while (left <= right), and what follows the loop *)
binary_loop(cap, a, size, target, left, right, buf) ==
    IF Ready(buf) /\ left <= right
    THEN binary_body(cap, a, size, target, left, right,
                     left + ((right - left) \div 2), buf)
    ELSE add_step(cap, buf, "BINARY_SEARCH_NOT_FOUND", a, size, Zeros, NULL,
                  <<"Target not found">>, "O(log n)")

binary_search(cap, a, size, target, buf) ==
    [arr |-> a, buf |-> binary_loop(cap, a, size, target, 0, size - 1, buf)]

(* ------------------------------------------------------------------ *)
(* main, sub_choice 2: the array is sorted, without steps, before       *)
(* binary_search; the loop state is [arr, buf], buf left as it is       *)
(* ------------------------------------------------------------------ *)
presort_inner(j, st) ==
    IF st.arr[j] > st.arr[j + 1]
    THEN [arr |-> swap(st.arr, j, j + 1), buf |-> st.buf]
    ELSE st

presort_outer(size, i, st) ==
    For(LAMBDA j, s : presort_inner(j, s), st, 0, size - i - 1)

presort(a, size, buf) ==
    For(LAMBDA i, s : presort_outer(size, i, s), [arr |-> a, buf |-> buf], 0, size - 1).arr

(* ------------------------------------------------------------------ *)
(* Stack: push, pop.  The result carries what the call printed          *)
(* (notice) and, for pop, what it returned (ret)                        *)
(* ------------------------------------------------------------------ *)
push_step(cap, t, buf) ==
    add_step(cap, buf, "PUSH", t.arr, t.top + 1, [Zeros EXCEPT ![t.top] = 1],
             Pointers(<<t.top>>), <<"Element pushed to stack">>, "O(1)")

(* a push that records a step although the stack is full *)
push_noisy(cap, s, data, buf) ==
    IF s.top >= MAX_SIZE - 1
    THEN [stack |-> s, buf |-> push_step(cap, s, buf), notice |-> "Stack overflow!"]
    ELSE [stack  |-> [arr |-> [s.arr EXCEPT ![s.top + 1] = data], top |-> s.top + 1],
          buf    |-> push_step(cap,
                        [arr |-> [s.arr EXCEPT ![s.top + 1] = data], top |-> s.top + 1],
                        buf),
          notice |-> ""]

push(cap, s, data, buf) ==
    IF s.top >= MAX_SIZE - 1
    THEN [stack |-> s, buf |-> buf, notice |-> "Stack overflow!"]
    ELSE [stack  |-> [arr |-> [s.arr EXCEPT ![s.top + 1] = data], top |-> s.top + 1],
          buf    |-> push_step(cap,
                        [arr |-> [s.arr EXCEPT ![s.top + 1] = data], top |-> s.top + 1],
                        buf),
          notice |-> ""]

(* a pop whose POP_AFTER step still shows the value popped *)
pop_stale(cap, s, buf) ==
    IF s.top < 0
    THEN [stack |-> s, buf |-> buf, ret |-> -1, notice |-> "Stack underflow!"]
    ELSE [stack  |-> [arr |-> s.arr, top |-> s.top - 1],
          buf    |-> add_step(cap,
                       add_step(cap, buf, "POP_BEFORE", s.arr, s.top + 1,
                                [Zeros EXCEPT ![s.top] = 1], Pointers(<<s.top>>),
                                <<"Element being popped">>, "O(1)"),
                       "POP_AFTER", s.arr, s.top + 1, Zeros, Pointers(<<s.top - 1>>),
                       <<"Element popped from stack">>, "O(1)"),
          ret    |-> s.arr[s.top],
          notice |-> ""]

(* a pop that returns the bottom of the stack *)
pop_bottom(cap, s, buf) ==
    IF s.top < 0
    THEN [stack |-> s, buf |-> buf, ret |-> -1, notice |-> "Stack underflow!"]
    ELSE [stack  |-> [arr |-> s.arr, top |-> s.top - 1],
          buf    |-> add_step(cap,
                       add_step(cap, buf, "POP_BEFORE", s.arr, s.top + 1,
                                [Zeros EXCEPT ![s.top] = 1], Pointers(<<s.top>>),
                                <<"Element being popped">>, "O(1)"),
                       "POP_AFTER", s.arr, s.top, Zeros, Pointers(<<s.top - 1>>),
                       <<"Element popped from stack">>, "O(1)"),
          ret    |-> s.arr[0],
          notice |-> ""]

pop(cap, s, buf) ==
    IF s.top < 0
    THEN [stack |-> s, buf |-> buf, ret |-> -1, notice |-> "Stack underflow!"]
    ELSE [stack  |-> [arr |-> s.arr, top |-> s.top - 1],
          buf    |-> add_step(cap,
                       add_step(cap, buf, "POP_BEFORE", s.arr, s.top + 1,
                                [Zeros EXCEPT ![s.top] = 1], Pointers(<<s.top>>),
                                <<"Element being popped">>, "O(1)"),
                       "POP_AFTER", s.arr, s.top, Zeros, Pointers(<<s.top - 1>>),
                       <<"Element popped from stack">>, "O(1)"),
          ret    |-> s.arr[s.top],
          notice |-> ""]

(* ------------------------------------------------------------------ *)
(* Queue: enqueue, dequeue                                              *)
(* ------------------------------------------------------------------ *)
(* an ENQUEUE step that shows the backing storage from index 0 *)
enqueue_step_whole(cap, q, buf) ==
    add_step(cap, buf, "ENQUEUE", q.arr, q.rear + 1, [Zeros EXCEPT ![q.rear] = 1],
             Pointers(<<q.front, q.rear>>), <<"Element enqueued">>, "O(1)")

(* enqueue after queue.front and queue.rear are set: q is the new queue *)
enqueue_step(cap, q, buf) ==
    add_step(cap, buf, "ENQUEUE", Offset(q.arr, q.front), q.rear - q.front + 1,
             Offset([Zeros EXCEPT ![q.rear] = 1], q.front), Pointers(<<q.front, q.rear>>),
             <<"Element enqueued">>, "O(1)")

enqueue_store(cap, q, front, data, buf) ==
    [queue  |-> [arr |-> [q.arr EXCEPT ![q.rear + 1] = data],
                 front |-> front, rear |-> q.rear + 1],
     buf    |-> enqueue_step(cap,
                    [arr |-> [q.arr EXCEPT ![q.rear + 1] = data],
                     front |-> front, rear |-> q.rear + 1],
                    buf),
     notice |-> ""]

enqueue(cap, q, data, buf) ==
    IF q.rear >= MAX_SIZE - 1
    THEN [queue |-> q, buf |-> buf, notice |-> "Queue overflow!"]
    ELSE enqueue_store(cap, q, IF q.front = -1 THEN 0 ELSE q.front, data, buf)

(* dequeue after queue.front++ and the reset of an emptied queue: q is  *)
(* the queue before the call, n the new one                             *)
dequeue_steps(cap, q, n, buf) ==
    add_step(cap,
      add_step(cap, buf, "DEQUEUE_BEFORE", Offset(q.arr, q.front), q.rear - q.front + 1,
               Offset([Zeros EXCEPT ![q.front] = 1], q.front),
               Pointers(<<q.front, q.rear>>), <<"Element being dequeued">>, "O(1)"),
      "DEQUEUE_AFTER", IF n.front = -1 THEN n.arr ELSE Offset(n.arr, n.front),
      IF n.front = -1 THEN 0 ELSE n.rear - n.front + 1, Zeros,
      Pointers(<<n.front, n.rear>>), <<"Element dequeued">>, "O(1)")

(* a dequeue that returns the rear of the queue *)
dequeue_advance_rear(cap, q, n, buf) ==
    [queue |-> n, buf |-> dequeue_steps(cap, q, n, buf), ret |-> q.arr[q.rear],
     notice |-> ""]

dequeue_advance(cap, q, n, buf) ==
    [queue |-> n, buf |-> dequeue_steps(cap, q, n, buf), ret |-> q.arr[q.front],
     notice |-> ""]

(* a dequeue that leaves front past rear when it removes the last value *)
dequeue_unreset(cap, q, buf) ==
    IF q.front = -1 \/ q.front > q.rear
    THEN [queue |-> q, buf |-> buf, ret |-> -1, notice |-> "Queue underflow!"]
    ELSE dequeue_advance(cap, q, [arr |-> q.arr, front |-> q.front + 1, rear |-> q.rear],
                         buf)

dequeue(cap, q, buf) ==
    IF q.front = -1 \/ q.front > q.rear
    THEN [queue |-> q, buf |-> buf, ret |-> -1, notice |-> "Queue underflow!"]
    ELSE dequeue_advance(cap, q,
            IF q.front + 1 > q.rear
            THEN [arr |-> q.arr, front |-> -1, rear |-> -1]
            ELSE [arr |-> q.arr, front |-> q.front + 1, rear |-> q.rear],
            buf)

(* ------------------------------------------------------------------ *)
(* Binary search tree: create_node, insert_bst, tree_to_array,          *)
(* inorder_traversal                                                    *)
(* ------------------------------------------------------------------ *)
Node(data, left, right) == <<data, left, right>>
Data(n)  == n[1]
Left(n)  == n[2]
Right(n) == n[3]

create_node(data) == Node(data, NULL, NULL)

(* the result is [arr, index]: the array filled and *index *)
RECURSIVE tree_to_array(_, _, _, _, _)
tree_to_array(root_, a, index, level, max_nodes) ==
    IF root_ = NULL \/ index >= max_nodes THEN [arr |-> a, index |-> index]
    ELSE LET here == [arr |-> [a EXCEPT ![index] = Data(root_)], index |-> index + 1]
             l == IF Left(root_) # NULL
                  THEN tree_to_array(Left(root_), here.arr, here.index, level + 1, max_nodes)
                  ELSE here
         IN  IF Right(root_) # NULL
             THEN tree_to_array(Right(root_), l.arr, l.index, level + 1, max_nodes)
             ELSE l

(* insert_bst from the call of tree_to_array on: t is the tree the call  *)
(* returns, flat its pre-order array                                    *)
insert_bst_step(cap, t, flat, data, buf) ==
    [root |-> t,
     buf  |-> add_step(cap, buf, "INSERT_BST", flat.arr, flat.index,
                       [i \in 0..(MAX_SIZE - 1) |->
                           IF /\ i < flat.index
                              /\ flat.arr[i] = data
                              /\ \A k \in 0..(i - 1) : flat.arr[k] # data
                           THEN 1 ELSE 0],
                       NULL, <<"Node inserted in BST">>, "O(log n)")]

(* the result is [root, buf], root being the pointer returned *)
RECURSIVE insert_bst(_, _, _, _)

(* insert_bst after its recursive call, if any, whose result is r *)
insert_bst_left(cap, root_, data, r) ==
    insert_bst_step(cap, Node(Data(root_), r.root, Right(root_)),
        tree_to_array(Node(Data(root_), r.root, Right(root_)), Zeros, 0, 0, MAX_SIZE),
        data, r.buf)

insert_bst_right(cap, root_, data, r) ==
    insert_bst_step(cap, Node(Data(root_), Left(root_), r.root),
        tree_to_array(Node(Data(root_), Left(root_), r.root), Zeros, 0, 0, MAX_SIZE),
        data, r.buf)

(* an insertion that sends a value equal to the node's to the right *)
insert_bst_dup(cap, root_, data, buf) ==
    IF root_ = NULL
    THEN [root |-> create_node(data),
          buf  |-> add_step(cap, buf, "INSERT_BST",
                            tree_to_array(create_node(data), Zeros, 0, 0, MAX_SIZE).arr,
                            tree_to_array(create_node(data), Zeros, 0, 0, MAX_SIZE).index,
                            [Zeros EXCEPT ![0] = 1], NULL,
                            <<"Inserted root node">>, "O(1)")]
    ELSE IF data < Data(root_)
    THEN insert_bst_left(cap, root_, data, insert_bst(cap, Left(root_), data, buf))
    ELSE insert_bst_right(cap, root_, data, insert_bst(cap, Right(root_), data, buf))

insert_bst(cap, root_, data, buf) ==
    IF root_ = NULL
    THEN [root |-> create_node(data),
          buf  |-> add_step(cap, buf, "INSERT_BST",
                            tree_to_array(create_node(data), Zeros, 0, 0, MAX_SIZE).arr,
                            tree_to_array(create_node(data), Zeros, 0, 0, MAX_SIZE).index,
                            [Zeros EXCEPT ![0] = 1], NULL,
                            <<"Inserted root node">>, "O(1)")]
    ELSE IF data < Data(root_)
    THEN insert_bst_left(cap, root_, data, insert_bst(cap, Left(root_), data, buf))
    ELSE IF data > Data(root_)
    THEN insert_bst_right(cap, root_, data, insert_bst(cap, Right(root_), data, buf))
    ELSE insert_bst_step(cap, root_, tree_to_array(root_, Zeros, 0, 0, MAX_SIZE), data, buf)

(* the result is [arr, index] *)
RECURSIVE inorder_traversal(_, _, _)
inorder_traversal(root_, a, index) ==
    IF root_ # NULL
    THEN LET l == inorder_traversal(Left(root_), a, index)
         IN  inorder_traversal(Right(root_), [l.arr EXCEPT ![l.index] = Data(root_)],
                               l.index + 1)
    ELSE [arr |-> a, index |-> index]

(* main, case 5, sub_choice 4, after the insertions: int arr[MAX_SIZE]  *)
(* is not initialised and holds junk wherever inorder_traversal did not *)
(* write; then for (i = 0; i <= index; i++) one step of size i + 1      *)
traversal_steps(cap, root_, junk, buf) ==
    For(LAMBDA i, st :
            [buf |-> add_step(cap, st.buf, "INORDER_TRAVERSAL",
                       inorder_traversal(root_, [k \in 0..(MAX_SIZE - 1) |-> junk], 0).arr,
                       i + 1,
                       IF i < inorder_traversal(root_, Zeros, 0).index
                       THEN [Zeros EXCEPT ![i] = 1] ELSE Zeros,
                       NULL, <<"Inorder traversal of BST">>, "O(n)")],
        [buf |-> buf], 0, inorder_traversal(root_, Zeros, 0).index + 1).buf

(* ------------------------------------------------------------------ *)
(* Binary search tree: search_bst, delete_bst                           *)
(* ------------------------------------------------------------------ *)
(* int highlighted[MAX_SIZE] = {0} with mark at the first index below    *)
(* flat.index whose value is v                                          *)
first_match(flat, v, mark) ==
    [i \in 0..(MAX_SIZE - 1) |->
        IF /\ i < flat.index
           /\ flat.arr[i] = v
           /\ \A k \in 0..(i - 1) : flat.arr[k] # v
        THEN mark ELSE 0]

(* a SEARCH_BST step that tags no position *)
search_bst_check_plain(cap, flat, current, data, buf) ==
    add_step(cap, buf, "SEARCH_BST", flat.arr, flat.index, Zeros, NULL,
             <<"Searching for %d, checking node %d", data, Data(current)>>, "O(log n)")

search_bst_check(cap, flat, current, data, buf) ==
    add_step(cap, buf, "SEARCH_BST", flat.arr, flat.index,
             first_match(flat, Data(current), 1), NULL,
             <<"Searching for %d, checking node %d", data, Data(current)>>, "O(log n)")

(* the result is [ret, buf], ret being the node returned; last holds     *)
(* tree_arr, index and highlighted as the previous iteration left them  *)
RECURSIVE search_bst_loop(_, _, _, _, _, _)
search_bst_loop(cap, root_, current, data, buf, last) ==
    IF current = NULL
    THEN [ret |-> NULL,
          buf |-> add_step(cap, buf, "SEARCH_BST_NOT_FOUND", last.arr, last.index,
                           last.highlighted, NULL, <<"Target not found">>, "O(log n)")]
    ELSE IF data = Data(current)
    THEN [ret |-> current,
          buf |-> add_step(cap,
                     search_bst_check(cap, tree_to_array(root_, Zeros, 0, 0, MAX_SIZE),
                                      current, data, buf),
                     "SEARCH_BST_FOUND",
                     tree_to_array(root_, Zeros, 0, 0, MAX_SIZE).arr,
                     tree_to_array(root_, Zeros, 0, 0, MAX_SIZE).index,
                     first_match(tree_to_array(root_, Zeros, 0, 0, MAX_SIZE), data, 2),
                     NULL, <<"Target found!">>, "O(log n)")]
    ELSE search_bst_loop(cap, root_,
             IF data < Data(current) THEN Left(current) ELSE Right(current), data,
             search_bst_check(cap, tree_to_array(root_, Zeros, 0, 0, MAX_SIZE),
                              current, data, buf),
             [arr         |-> tree_to_array(root_, Zeros, 0, 0, MAX_SIZE).arr,
              index       |-> tree_to_array(root_, Zeros, 0, 0, MAX_SIZE).index,
              highlighted |-> first_match(tree_to_array(root_, Zeros, 0, 0, MAX_SIZE),
                                          Data(current), 1)])

search_bst(cap, root_, data, buf) ==
    search_bst_loop(cap, root_, root_, data, buf,
                    [arr |-> Zeros, index |-> 0, highlighted |-> Zeros])

delete_bst_search(cap, root_, flat, data, buf) ==
    add_step(cap, buf, "DELETE_BST_SEARCH", flat.arr, flat.index,
             first_match(flat, Data(root_), 1), NULL,
             <<"Searching for %d to delete, checking node %d", data, Data(root_)>>,
             "O(log n)")

(* the steps of a call that found data at root_ *)
delete_bst_found(cap, root_, flat, data, buf) ==
    add_step(cap, delete_bst_search(cap, root_, flat, data, buf), "DELETE_BST_FOUND",
             flat.arr, flat.index, first_match(flat, data, 2), NULL,
             <<"Node found - proceeding with deletion">>, "O(log n)")

(* delete_bst from the second tree_to_array on: t is the tree returned  *)
delete_bst_complete(cap, t, flat, buf) ==
    [root |-> t,
     buf  |-> add_step(cap, buf, "DELETE_BST_COMPLETE", flat.arr, flat.index, Zeros, NULL,
                       <<"Node deleted from BST">>, "O(log n)")]

(* while (temp->left != NULL) temp = temp->left; temp->data *)
RECURSIVE leftmost(_)
leftmost(t) == IF Left(t) = NULL THEN Data(t) ELSE leftmost(Left(t))

(* the result is [root, buf], root being the pointer returned *)
RECURSIVE delete_bst(_, _, _, _)

(* delete_bst after root->left = delete_bst(...), whose result is r *)
delete_bst_left(cap, root_, r) ==
    delete_bst_complete(cap, Node(Data(root_), r.root, Right(root_)),
        tree_to_array(Node(Data(root_), r.root, Right(root_)), Zeros, 0, 0, MAX_SIZE),
        r.buf)

(* delete_bst after root->right = delete_bst(...), whose result is r *)
delete_bst_right(cap, root_, r) ==
    delete_bst_complete(cap, Node(Data(root_), Left(root_), r.root),
        tree_to_array(Node(Data(root_), Left(root_), r.root), Zeros, 0, 0, MAX_SIZE),
        r.buf)

(* a deletion that copies the successor up and leaves it in the right    *)
(* subtree                                                              *)
delete_bst_node_keep(cap, root_, buf) ==
    IF Left(root_) = NULL THEN [root |-> Right(root_), buf |-> buf]
    ELSE IF Right(root_) = NULL THEN [root |-> Left(root_), buf |-> buf]
    ELSE delete_bst_right(cap,
             Node(leftmost(Right(root_)), Left(root_), Right(root_)),
             [root |-> Right(root_), buf |-> buf])

(* delete_bst at the node that holds data, after its DELETE_BST_FOUND   *)
(* step                                                                 *)
delete_bst_node(cap, root_, buf) ==
    IF Left(root_) = NULL THEN [root |-> Right(root_), buf |-> buf]
    ELSE IF Right(root_) = NULL THEN [root |-> Left(root_), buf |-> buf]
    ELSE delete_bst_right(cap,
             Node(leftmost(Right(root_)), Left(root_), Right(root_)),
             delete_bst(cap, Right(root_), leftmost(Right(root_)), buf))

delete_bst(cap, root_, data, buf) ==
    IF root_ = NULL
    THEN [root |-> NULL,
          buf  |-> add_step(cap, buf, "DELETE_BST_NOT_FOUND", Zeros, 0, Zeros, NULL,
                            <<"Element not found in BST">>, "O(log n)")]
    ELSE IF data < Data(root_)
    THEN delete_bst_left(cap, root_,
             delete_bst(cap, Left(root_), data,
                 delete_bst_search(cap, root_,
                     tree_to_array(root_, Zeros, 0, 0, MAX_SIZE), data, buf)))
    ELSE IF data > Data(root_)
    THEN delete_bst_right(cap, root_,
             delete_bst(cap, Right(root_), data,
                 delete_bst_search(cap, root_,
                     tree_to_array(root_, Zeros, 0, 0, MAX_SIZE), data, buf)))
    ELSE delete_bst_node(cap, root_,
             delete_bst_found(cap, root_,
                 tree_to_array(root_, Zeros, 0, 0, MAX_SIZE), data, buf))

(* ------------------------------------------------------------------ *)
(* Linked list: the list at head is the sequence of its values.  The   *)
(* result of an operation is [head, buf, overrun], overrun being the    *)
(* indices at or beyond MAX_SIZE of a local array the call wrote to     *)
(* ------------------------------------------------------------------ *)
(* while (temp != NULL && size < MAX_SIZE) arr[size++] = temp->data *)
list_to_array(h) ==
    [arr  |-> [i \in 0..(MAX_SIZE - 1) |-> IF i < Len(h) THEN h[i + 1] ELSE 0],
     size |-> Min(Len(h), MAX_SIZE)]

insert_at_beginning(cap, h, data, buf) ==
    [head    |-> <<data>> \o h,
     buf     |-> add_step(cap, buf, "INSERT_BEGINNING", list_to_array(<<data>> \o h).arr,
                          list_to_array(<<data>> \o h).size, [Zeros EXCEPT ![0] = 1], NULL,
                          <<"Inserted at beginning">>, "O(1)"),
     overrun |-> {}]

(* insert_at_end and insert_sequential differ in the step they record *)
insert_last(cap, h, data, buf, action, desc) ==
    [head    |-> Append(h, data),
     buf     |-> add_step(cap, buf, action, list_to_array(Append(h, data)).arr,
                          list_to_array(Append(h, data)).size,
                          [Zeros EXCEPT ![list_to_array(Append(h, data)).size - 1] = 1],
                          NULL, desc, "O(n)"),
     overrun |-> {}]

insert_at_end(cap, h, data, buf) ==
    insert_last(cap, h, data, buf, "INSERT_END", <<"Inserted at end">>)

(* an insert_sequential that does not tag the node it appended *)
insert_sequential_untagged(cap, h, data, buf) ==
    [head    |-> Append(h, data),
     buf     |-> add_step(cap, buf, "INSERT_SEQUENTIAL", list_to_array(Append(h, data)).arr,
                          list_to_array(Append(h, data)).size, Zeros, NULL,
                          <<"Added element sequentially">>, "O(n)"),
     overrun |-> {}]

insert_sequential(cap, h, data, buf) ==
    insert_last(cap, h, data, buf, "INSERT_SEQUENTIAL", <<"Added element sequentially">>)

(* what the build makes of highlighted[position] = 2 with position at or *)
(* beyond MAX_SIZE: the write falls outside every value later read      *)
(* ("unseen"), or on the neighbouring local array arr ("arr")           *)
Overruns == {"unseen", "arr"}

search_list_check(cap, h, data, position, buf) ==
    add_step(cap, buf, "SEARCH_LIST", list_to_array(h).arr, list_to_array(h).size,
             IF position < list_to_array(h).size
             THEN [Zeros EXCEPT ![position] = 1] ELSE Zeros,
             NULL, <<"Searching for %d, checking position %d", data, position>>, "O(n)")

(* the SEARCH_LIST_FOUND step, after highlighted[position] = 2 *)
search_list_found(cap, h, position, ub, buf) ==
    add_step(cap, buf, "SEARCH_LIST_FOUND",
             IF position >= MAX_SIZE /\ ub = "arr"
             THEN [list_to_array(h).arr EXCEPT ![position - MAX_SIZE] = 2]
             ELSE list_to_array(h).arr,
             list_to_array(h).size,
             IF position < MAX_SIZE THEN [Zeros EXCEPT ![position] = 2] ELSE Zeros,
             NULL, <<"Element found!">>, "O(n)")

(* the body of the while loop; the loop state is [returned, buf, overrun] *)
search_list_body(cap, h, data, ub, position, st) ==
    IF st.returned THEN st
    ELSE IF h[position + 1] = data
    THEN [returned |-> TRUE,
          buf      |-> search_list_found(cap, h, position, ub,
                           search_list_check(cap, h, data, position, st.buf)),
          overrun  |-> IF position >= MAX_SIZE THEN {position} ELSE {}]
    ELSE [returned |-> FALSE,
          buf      |-> search_list_check(cap, h, data, position, st.buf),
          overrun  |-> {}]

search_list_not_found(cap, h, r) ==
    [head    |-> h,
     buf     |-> IF r.returned THEN r.buf
                 ELSE add_step(cap, r.buf, "SEARCH_LIST_NOT_FOUND", list_to_array(h).arr,
                               list_to_array(h).size, Zeros, NULL,
                               <<"Element not found">>, "O(n)"),
     overrun |-> r.overrun]

search_linked_list(cap, h, data, ub, buf) ==
    search_list_not_found(cap, h,
        For(LAMBDA position, s : search_list_body(cap, h, data, ub, position, s),
            [returned |-> FALSE, buf |-> buf, overrun |-> {}], 0, Len(h)))

(* ------------------------------------------------------------------ *)
(* cleanup_memory; the loop state is [root, head, buf]                  *)
(* ------------------------------------------------------------------ *)
RECURSIVE nodes(_)
nodes(t) == IF t = NULL THEN 0 ELSE 1 + nodes(Left(t)) + nodes(Right(t))

(* while (root != NULL) root = delete_bst(root, root->data) *)
cleanup_tree(cap, st) ==
    IF st.root = NULL THEN st
    ELSE [root |-> delete_bst(cap, st.root, Data(st.root), st.buf).root,
          head |-> st.head,
          buf  |-> delete_bst(cap, st.root, Data(st.root), st.buf).buf]

(* a loop that does not advance head *)
cleanup_list_stall(st) == st

(* while (head != NULL) { temp = head; head = head->next; free(temp); } *)
cleanup_list(st) ==
    IF st.head = NULL THEN st
    ELSE [root |-> st.root, head |-> Tail(st.head), buf |-> st.buf]

(* the result is [root, head, stack, queue, buf]; each loop is run for  *)
(* one iteration more than the structure has nodes, so that a loop      *)
(* that has not ended shows as a structure that is not empty            *)
cleanup_memory(cap, root_, h, s, q, buf) ==
    [root  |-> For(LAMBDA i, st : cleanup_tree(cap, st),
                   [root |-> root_, head |-> h, buf |-> buf], 0, nodes(root_) + 1).root,
     head  |-> For(LAMBDA i, st : cleanup_list(st),
                   [root |-> root_, head |-> h, buf |-> buf], 0, Len(h) + 1).head,
     stack |-> [arr |-> s.arr, top |-> -1],
     queue |-> [arr |-> q.arr, front |-> -1, rear |-> -1],
     buf   |-> <<>>]

(* ------------------------------------------------------------------ *)
(* write_config: the document written when the file opens               *)
(* ------------------------------------------------------------------ *)
(* a write_config that compares the list family with another name *)
write_config_list(structure_type, operation) ==
    [structure_type        |-> structure_type,
     operation             |-> operation,
     is_stack              |-> structure_type = "stack",
     is_queue              |-> structure_type = "queue",
     is_linked_list        |-> structure_type = "list",
     is_binary_search_tree |-> structure_type = "binary_search_tree",
     is_array              |-> structure_type = "array"]

write_config(structure_type, operation) ==
    [structure_type        |-> structure_type,
     operation             |-> operation,
     is_stack              |-> structure_type = "stack",
     is_queue              |-> structure_type = "queue",
     is_linked_list        |-> structure_type = "linked_list",
     is_binary_search_tree |-> structure_type = "binary_search_tree",
     is_array              |-> structure_type = "array"]

(* ------------------------------------------------------------------ *)
(* write_json_output: the document written when the file opens          *)
(* ------------------------------------------------------------------ *)
SUCCESS == 0
ERROR_INVALID_INPUT == -1
ERROR_FILE_OPERATION == -3

(* a step object whose highlighted list stops one entry early *)
json_step_short(i, s) ==
    [step        |-> i,
     action      |-> s.action,
     data        |-> [j \in 1..s.size |-> s.data[j - 1]],
     highlighted |-> [j \in 1..(s.size - 1) |-> s.highlighted[j - 1]],
     pointers    |-> [j \in 1..NPOINTERS |-> s.pointers[j - 1]],
     description |-> s.description,
     complexity  |-> s.complexity]

json_step(i, s) ==
    [step        |-> i,
     action      |-> s.action,
     data        |-> [j \in 1..s.size |-> s.data[j - 1]],
     highlighted |-> [j \in 1..s.size |-> s.highlighted[j - 1]],
     pointers    |-> [j \in 1..NPOINTERS |-> s.pointers[j - 1]],
     description |-> s.description,
     complexity  |-> s.complexity]

write_json_output(buf) ==
    [steps       |-> [i \in 1..Len(buf) |-> json_step(i - 1, buf[i])],
     total_steps |-> Len(buf)]

(* ------------------------------------------------------------------ *)
(* Inputs                                                               *)
(* ------------------------------------------------------------------ *)
Values == 1..MaxVal

SmallArrays ==
    UNION {[0..(n - 1) -> Values] : n \in MIN_ARRAY_SIZE..MaxLen}

(* the largest array main accepts, in descending order *)
Descending == [i \in 0..(MAX_ARRAY_SIZE - 1) |-> MAX_ARRAY_SIZE - i]

Example == ArrayOf(<<5, 3, 8, 1>>)

ArrayInputs == SmallArrays \cup {Descending, Example}

(* the targets searched in a: every element, and two absent values *)
Targets(a) == {a[i] : i \in DOMAIN a} \cup {0, MAX_ARRAY_SIZE + 1}

BstValues == 1..MaxBstVal

ListValues == 1..MaxListVal

CellValues == 1..MaxCellVal

(* the demo tree main builds before a search or a deletion *)
DemoValues == <<50, 30, 70, 20, 40, 60, 80>>

Call(op, arg, ret, notice) == [op |-> op, arg |-> arg, ret |-> ret, notice |-> notice]

Last(s) == s[Len(s)]

(* main has neither returned nor started to write its documents *)
Running ==
    /\ returned = NULL
    /\ IF log = <<>> THEN TRUE
       ELSE Last(log).op \notin {"write_config", "write_json_output"}

(* main is still populating the structure: the search or deletion that   *)
(* ends a run has not been made                                         *)
Seeding ==
    /\ Running
    /\ IF log = <<>> THEN TRUE
       ELSE Last(log).op \notin {"search_linked_list", "search_bst", "delete_bst",
                                 "inorder_traversal"}

Init ==
    /\ steps = <<>>
    /\ arr = NULL
    /\ root = NULL
    /\ head = NULL
    /\ stack = [arr |-> Zeros, top |-> -1]
    /\ queue = [arr |-> Zeros, front |-> -1, rear |-> -1]
    /\ doc = NULL
    /\ config = NULL
    /\ returned = NULL
    /\ overrun = {}
    /\ family = "none"
    /\ log = <<>>
    /\ frame = [op |-> "none"]

(* ------------------------------------------------------------------ *)
(* main, case 1: the array is read (or generated), then one operation   *)
(* runs on it                                                           *)
(* ------------------------------------------------------------------ *)
ReadArray ==
    /\ family = "none"
    /\ \E a \in ArrayInputs : arr' = a
    /\ family' = "array"
    /\ UNCHANGED <<steps, root, head, stack, queue, doc, config, returned, overrun, log>>
    /\ UNCHANGED frame

ArrayCall(op, r, target) ==
    /\ arr' = r.arr
    /\ steps' = r.buf
    /\ log' = Append(log, Call(op, [arr |-> arr, target |-> target], 0, ""))
    /\ UNCHANGED <<root, head, stack, queue, doc, config, returned, overrun, family>>

BubbleSort ==
    /\ family = "array" /\ log = <<>> /\ returned = NULL
    /\ ArrayCall("bubble_sort", bubble_sort(MAX_STEPS, arr, Size(arr), steps), 0)
    /\ UNCHANGED frame

SelectionSort ==
    /\ family = "array" /\ log = <<>> /\ returned = NULL
    /\ ArrayCall("selection_sort", selection_sort(MAX_STEPS, arr, Size(arr), steps), 0)
    /\ UNCHANGED frame

InsertionSort ==
    /\ family = "array" /\ log = <<>> /\ returned = NULL
    /\ ArrayCall("insertion_sort", insertion_sort(MAX_STEPS, arr, Size(arr), steps), 0)
    /\ UNCHANGED frame

QuickSort ==
    /\ family = "array" /\ log = <<>> /\ returned = NULL
    /\ ArrayCall("quick_sort", quick_sort_wrapper(MAX_STEPS, arr, Size(arr), steps), 0)
    /\ UNCHANGED frame

MergeSort ==
    /\ family = "array" /\ log = <<>> /\ returned = NULL
    /\ ArrayCall("merge_sort", merge_sort_wrapper(MAX_STEPS, arr, Size(arr), steps), 0)
    /\ UNCHANGED frame

LinearSearch ==
    /\ family = "array" /\ log = <<>> /\ returned = NULL
    /\ \E target \in Targets(arr) :
          ArrayCall("linear_search",
                    linear_search(MAX_STEPS, arr, Size(arr), target, steps), target)
    /\ UNCHANGED frame

(* main sorts the array before it calls binary_search *)
BinarySearch ==
    /\ family = "array" /\ log = <<>> /\ returned = NULL
    /\ \E target \in Targets(arr) :
          ArrayCall("binary_search",
                    binary_search(MAX_STEPS, presort(arr, Size(arr), steps), Size(arr),
                                  target, steps),
                    target)
    /\ UNCHANGED frame

(* ------------------------------------------------------------------ *)
(* main, case 2: insertions into the list, then at most one search      *)
(* ------------------------------------------------------------------ *)
ListCall(op, arg, r) ==
    /\ head' = r.head
    /\ steps' = r.buf
    /\ overrun' = overrun \cup r.overrun
    /\ family' = "linked_list"
    /\ log' = Append(log, Call(op, arg, 0, ""))
    /\ UNCHANGED <<arr, root, stack, queue, doc, config, returned>>

InsertAtBeginning ==
    /\ family \in {"none", "linked_list"} /\ Seeding /\ Len(log) < MaxListCalls
    /\ \E data \in ListValues :
          ListCall("insert_at_beginning", data,
                   insert_at_beginning(MAX_STEPS, head, data, steps))
    /\ UNCHANGED frame

InsertAtEnd ==
    /\ family \in {"none", "linked_list"} /\ Seeding /\ Len(log) < MaxListCalls
    /\ \E data \in ListValues :
          ListCall("insert_at_end", data, insert_at_end(MAX_STEPS, head, data, steps))
    /\ UNCHANGED frame

InsertSequential ==
    /\ family \in {"none", "linked_list"} /\ Seeding /\ Len(log) < MaxListCalls
    /\ \E data \in ListValues :
          ListCall("insert_sequential", data,
                   insert_sequential(MAX_STEPS, head, data, steps))
    /\ UNCHANGED frame

SearchLinkedList ==
    /\ family = "linked_list" /\ Seeding
    /\ \E data \in {head[i] : i \in 1..Len(head)} \cup {0}, ub \in Overruns :
          ListCall("search_linked_list", data,
                   search_linked_list(MAX_STEPS, head, data, ub, steps))
    /\ UNCHANGED frame

(* ------------------------------------------------------------------ *)
(* main, case 3: pushes and pops                                        *)
(* ------------------------------------------------------------------ *)
StackCall(op, arg, r, ret) ==
    /\ stack' = r.stack
    /\ steps' = r.buf
    /\ family' = "stack"
    /\ log' = Append(log, Call(op, arg, ret, r.notice))
    /\ UNCHANGED <<arr, root, head, queue, doc, config, returned, overrun>>

Push ==
    /\ family \in {"none", "stack"} /\ Running /\ Len(log) < MaxStackCalls
    /\ \E data \in CellValues : StackCall("push", data, push(MAX_STEPS, stack, data, steps), 0)
    /\ UNCHANGED frame

Pop ==
    /\ family \in {"none", "stack"} /\ Running /\ Len(log) < MaxStackCalls
    /\ StackCall("pop", 0, pop(MAX_STEPS, stack, steps), pop(MAX_STEPS, stack, steps).ret)
    /\ UNCHANGED frame

(* ------------------------------------------------------------------ *)
(* main, case 4: enqueues and dequeues                                  *)
(* ------------------------------------------------------------------ *)
QueueCall(op, arg, r, ret) ==
    /\ queue' = r.queue
    /\ steps' = r.buf
    /\ family' = "queue"
    /\ log' = Append(log, Call(op, arg, ret, r.notice))
    /\ UNCHANGED <<arr, root, head, stack, doc, config, returned, overrun>>

Enqueue ==
    /\ family \in {"none", "queue"} /\ Running /\ Len(log) < MaxQueueCalls
    /\ \E data \in CellValues :
          QueueCall("enqueue", data, enqueue(MAX_STEPS, queue, data, steps), 0)
    /\ UNCHANGED frame

Dequeue ==
    /\ family \in {"none", "queue"} /\ Running /\ Len(log) < MaxQueueCalls
    /\ QueueCall("dequeue", 0, dequeue(MAX_STEPS, queue, steps),
                 dequeue(MAX_STEPS, queue, steps).ret)
    /\ UNCHANGED frame

(* the demo queue main fills before it dequeues *)
DemoQueueValues == <<10, 20, 30>>

(* the three enqueues of the demo queue, the state being [queue, buf] *)
demo_queue(cap, q, buf) ==
    For(LAMBDA i, s : [queue |-> enqueue(cap, s.queue, DemoQueueValues[i + 1], s.buf).queue,
                       buf   |-> enqueue(cap, s.queue, DemoQueueValues[i + 1], s.buf).buf],
        [queue |-> q, buf |-> buf], 0, Len(DemoQueueValues))

DemoQueue ==
    /\ family = "none" /\ Running
    /\ queue' = demo_queue(MAX_STEPS, queue, steps).queue
    /\ steps' = demo_queue(MAX_STEPS, queue, steps).buf
    /\ family' = "queue"
    /\ log' = log \o [i \in 1..Len(DemoQueueValues) |->
                          Call("enqueue", DemoQueueValues[i], 0, "")]
    /\ UNCHANGED <<arr, root, head, stack, doc, config, returned, overrun>>
    /\ UNCHANGED frame

(* ------------------------------------------------------------------ *)
(* main, case 5: root = insert_bst(root, data), the demo tree, then at  *)
(* most one search or deletion                                          *)
(* ------------------------------------------------------------------ *)
BstCall(entries, r) ==
    /\ root' = r.root
    /\ steps' = r.buf
    /\ family' = "binary_search_tree"
    /\ log' = log \o entries
    /\ UNCHANGED <<arr, head, stack, queue, doc, config, returned, overrun>>

InsertBst ==
    /\ family \in {"none", "binary_search_tree"} /\ Seeding /\ Len(log) < MaxBstCalls
    /\ \E data \in BstValues :
          BstCall(<<Call("insert_bst", data, 0, "")>>,
                  insert_bst(MAX_STEPS, root, data, steps))
    /\ UNCHANGED frame

(* the seven insertions of the demo tree, the state being [root, buf] *)
demo_bst(cap, root_, buf) ==
    For(LAMBDA i, s : insert_bst(cap, s.root, DemoValues[i + 1], s.buf),
        [root |-> root_, buf |-> buf], 0, Len(DemoValues))

DemoBst ==
    /\ family = "none" /\ Seeding
    /\ BstCall([i \in 1..Len(DemoValues) |-> Call("insert_bst", DemoValues[i], 0, "")],
               demo_bst(MAX_STEPS, root, steps))
    /\ UNCHANGED frame

(* the values searched or deleted: every value of the tree, and one it  *)
(* does not hold                                                        *)
BstTargets(t) ==
    {tree_to_array(t, Zeros, 0, 0, MAX_SIZE).arr[i] :
        i \in 0..(tree_to_array(t, Zeros, 0, 0, MAX_SIZE).index - 1)} \cup {0}

SearchBst ==
    /\ family \in {"none", "binary_search_tree"} /\ Seeding
    /\ \E data \in BstTargets(root) :
          BstCall(<<Call("search_bst", data,
                         search_bst(MAX_STEPS, root, data, steps).ret, "")>>,
                  [root |-> root, buf |-> search_bst(MAX_STEPS, root, data, steps).buf])
    /\ UNCHANGED frame

(* the values an int that was never written may hold: one that no tree *)
(* holds and one that a tree may hold                                   *)
Indeterminate == {0, MaxBstVal}

TraverseBst ==
    /\ family = "binary_search_tree" /\ Seeding
    /\ \E junk \in Indeterminate :
          BstCall(<<Call("inorder_traversal", 0, 0, "")>>,
                  [root |-> root, buf |-> traversal_steps(MAX_STEPS, root, junk, steps)])
    /\ UNCHANGED frame

DeleteBst ==
    /\ family \in {"none", "binary_search_tree"} /\ Seeding
    /\ \E data \in BstTargets(root) :
          BstCall(<<Call("delete_bst", data, 0, "")>>,
                  delete_bst(MAX_STEPS, root, data, steps))
    /\ UNCHANGED frame

(* ------------------------------------------------------------------ *)
(* main, after the operations: write_config, write_json_output, whose   *)
(* fopen may fail, and the return                                       *)
(* ------------------------------------------------------------------ *)
(* the operation main names in the config document *)
Operation ==
    IF family = "array" THEN log[1].op
    ELSE CASE Last(log).op = "insert_at_beginning" -> "insert_beginning"
           [] Last(log).op = "insert_at_end" -> "insert_end"
           [] Last(log).op = "search_linked_list" -> "search"
           [] Last(log).op = "insert_bst" -> "insert"
           [] Last(log).op = "search_bst" -> "search"
           [] Last(log).op = "delete_bst" -> "delete"
           [] Last(log).op = "inorder_traversal" -> "traversal"
           [] OTHER -> Last(log).op

(* cleanup_memory(); return code; *)
Return(code) ==
    /\ root' = cleanup_memory(MAX_STEPS, root, head, stack, queue, steps).root
    /\ head' = cleanup_memory(MAX_STEPS, root, head, stack, queue, steps).head
    /\ stack' = cleanup_memory(MAX_STEPS, root, head, stack, queue, steps).stack
    /\ queue' = cleanup_memory(MAX_STEPS, root, head, stack, queue, steps).queue
    /\ steps' = cleanup_memory(MAX_STEPS, root, head, stack, queue, steps).buf
    /\ returned' = <<code>>

(* safe_input_int fails where main asks for the target of the operation *)
InputError ==
    /\ Running /\ family # "none"
    /\ family = "array" => log = <<>>
    /\ Return(ERROR_INVALID_INPUT)
    /\ UNCHANGED <<arr, doc, config, overrun, family, log>>
    /\ UNCHANGED frame

(* only the array case looks at what write_config returned *)
WriteConfig ==
    /\ Running /\ log # <<>>
    /\ \E opened \in BOOLEAN :
          IF opened
          THEN /\ config' = write_config(family, Operation)
               /\ log' = Append(log, Call("write_config", family, SUCCESS, ""))
               /\ UNCHANGED <<steps, root, head, stack, queue, returned>>
          ELSE /\ config' = config
               /\ log' = Append(log, Call("write_config", family, ERROR_FILE_OPERATION,
                                          "Error: Could not create algorithm_config.json file!"))
               /\ IF family = "array"
                  THEN Return(ERROR_FILE_OPERATION)
                  ELSE UNCHANGED <<steps, root, head, stack, queue, returned>>
    /\ UNCHANGED <<arr, doc, overrun, family>>
    /\ UNCHANGED frame

(* a main that writes the trace after the tree has been torn down *)
WriteJsonLate ==
    /\ returned = NULL /\ log # <<>>
    /\ IF log = <<>> THEN FALSE ELSE Last(log).op = "write_config"
    /\ \E opened \in BOOLEAN :
          IF opened
          THEN /\ doc' = write_json_output(
                            For(LAMBDA i, st : cleanup_tree(MAX_STEPS, st),
                                [root |-> root, head |-> head, buf |-> steps],
                                0, nodes(root) + 1).buf)
               /\ log' = Append(log, Call("write_json_output", 0, SUCCESS, ""))
               /\ UNCHANGED <<steps, root, head, stack, queue, returned>>
          ELSE /\ doc' = doc
               /\ log' = Append(log, Call("write_json_output", 0, ERROR_FILE_OPERATION,
                                          "Error: Could not create algorithm_steps.json file!"))
               /\ Return(ERROR_FILE_OPERATION)
    /\ UNCHANGED <<arr, config, overrun, family>>
    /\ UNCHANGED frame

WriteJson ==
    /\ returned = NULL /\ log # <<>>
    /\ IF log = <<>> THEN FALSE ELSE Last(log).op = "write_config"
    /\ \E opened \in BOOLEAN :
          IF opened
          THEN /\ doc' = write_json_output(steps)
               /\ log' = Append(log, Call("write_json_output", 0, SUCCESS, ""))
               /\ UNCHANGED <<steps, root, head, stack, queue, returned>>
          ELSE /\ doc' = doc
               /\ log' = Append(log, Call("write_json_output", 0, ERROR_FILE_OPERATION,
                                          "Error: Could not create algorithm_steps.json file!"))
               /\ Return(ERROR_FILE_OPERATION)
    /\ UNCHANGED <<arr, config, overrun, family>>
    /\ UNCHANGED frame

(* main, after write_json_output succeeded *)
Finish ==
    /\ returned = NULL
    /\ IF log = <<>> THEN FALSE ELSE Last(log).op = "write_json_output"
    /\ Return(SUCCESS)
    /\ UNCHANGED <<arr, doc, config, overrun, family, log>>
    /\ UNCHANGED frame

Next ==
    \/ ReadArray
    \/ BubbleSort
    \/ SelectionSort
    \/ InsertionSort
    \/ QuickSort
    \/ MergeSort
    \/ LinearSearch
    \/ BinarySearch
    \/ InsertAtBeginning
    \/ InsertAtEnd
    \/ InsertSequential
    \/ SearchLinkedList
    \/ Push
    \/ Pop
    \/ Enqueue
    \/ Dequeue
    \/ DemoQueue
    \/ InsertBst
    \/ DemoBst
    \/ SearchBst
    \/ DeleteBst
    \/ TraverseBst
    \/ InputError
    \/ WriteConfig
    \/ WriteJson
    \/ Finish

Spec == Init /\ [][Next]_vars

(* ------------------------------------------------------------------ *)
(* Long runs: a caller fills a structure up to its capacity, which the  *)
(* menus of main (at most 10 values) never do, then makes single calls  *)
(* ------------------------------------------------------------------ *)
(* the structures are filled with MAX_SIZE - Slack .. MAX_SIZE + Slack  *)
(* values                                                               *)
FillCounts == (MAX_SIZE - Slack)..(MAX_SIZE + Slack)

(* the i-th value inserted into the tree, i >= 1: the 7-bit reversal of *)
(* i, which fills the tree level by level                               *)
FillBstValue(i) ==
    64 * (i % 2) + 32 * ((i \div 2) % 2) + 16 * ((i \div 4) % 2) + 8 * ((i \div 8) % 2)
    + 4 * ((i \div 16) % 2) + 2 * ((i \div 32) % 2) + ((i \div 64) % 2)

(* for (i = 0; i < n; i++) push(i + 1), the state being [stack, buf] *)
fill_stack(cap, s, n, buf) ==
    For(LAMBDA i, st : [stack |-> push(cap, st.stack, i + 1, st.buf).stack,
                        buf   |-> push(cap, st.stack, i + 1, st.buf).buf],
        [stack |-> s, buf |-> buf], 0, n)

(* for (i = 0; i < n; i++) enqueue(i + 1), the state being [queue, buf] *)
fill_queue(cap, q, n, buf) ==
    For(LAMBDA i, st : [queue |-> enqueue(cap, st.queue, i + 1, st.buf).queue,
                        buf   |-> enqueue(cap, st.queue, i + 1, st.buf).buf],
        [queue |-> q, buf |-> buf], 0, n)

(* for (i = 0; i < n; i++) insert_at_end(i + 1), the state being [head, buf] *)
fill_list(cap, h, n, buf) ==
    For(LAMBDA i, st : [head |-> insert_at_end(cap, st.head, i + 1, st.buf).head,
                        buf  |-> insert_at_end(cap, st.head, i + 1, st.buf).buf],
        [head |-> h, buf |-> buf], 0, n)

(* for (i = 1; i <= n; i++) root = insert_bst(root, FillBstValue(i)) *)
fill_bst(cap, root_, n, buf) ==
    For(LAMBDA i, st : insert_bst(cap, st.root, FillBstValue(i), st.buf),
        [root |-> root_, buf |-> buf], 1, n + 1)

(* a long run may make one more single call *)
LongRunning == returned = NULL /\ Len(log) < MaxLongCalls

LongSeeding ==
    /\ LongRunning
    /\ IF log = <<>> THEN TRUE
       ELSE Last(log).op \notin {"search_linked_list", "search_bst", "delete_bst"}

FillStack ==
    /\ family = "none" /\ log = <<>>
    /\ \E n \in FillCounts :
          /\ stack' = fill_stack(MAX_STEPS, stack, n, steps).stack
          /\ steps' = fill_stack(MAX_STEPS, stack, n, steps).buf
          /\ log' = <<Call("fill", n, 0, "")>>
    /\ family' = "stack"
    /\ UNCHANGED <<arr, root, head, queue, doc, config, returned, overrun>>
    /\ UNCHANGED frame

LongPush ==
    /\ family \in {"none", "stack"} /\ LongRunning
    /\ \E data \in CellValues : StackCall("push", data, push(MAX_STEPS, stack, data, steps), 0)
    /\ UNCHANGED frame

LongPop ==
    /\ family \in {"none", "stack"} /\ LongRunning
    /\ StackCall("pop", 0, pop(MAX_STEPS, stack, steps), pop(MAX_STEPS, stack, steps).ret)
    /\ UNCHANGED frame

FillQueue ==
    /\ family = "none" /\ log = <<>>
    /\ \E n \in FillCounts :
          /\ queue' = fill_queue(MAX_STEPS, queue, n, steps).queue
          /\ steps' = fill_queue(MAX_STEPS, queue, n, steps).buf
          /\ log' = <<Call("fill", n, 0, "")>>
    /\ family' = "queue"
    /\ UNCHANGED <<arr, root, head, stack, doc, config, returned, overrun>>
    /\ UNCHANGED frame

LongEnqueue ==
    /\ family \in {"none", "queue"} /\ LongRunning
    /\ \E data \in CellValues :
          QueueCall("enqueue", data, enqueue(MAX_STEPS, queue, data, steps), 0)
    /\ UNCHANGED frame

LongDequeue ==
    /\ family \in {"none", "queue"} /\ LongRunning
    /\ QueueCall("dequeue", 0, dequeue(MAX_STEPS, queue, steps),
                 dequeue(MAX_STEPS, queue, steps).ret)
    /\ UNCHANGED frame

FillList ==
    /\ family = "none" /\ log = <<>>
    /\ \E n \in FillCounts :
          /\ head' = fill_list(MAX_STEPS, head, n, steps).head
          /\ steps' = fill_list(MAX_STEPS, head, n, steps).buf
          /\ log' = <<Call("fill", n, 0, "")>>
    /\ family' = "linked_list"
    /\ UNCHANGED <<arr, root, stack, queue, doc, config, returned, overrun>>
    /\ UNCHANGED frame

LongInsertAtBeginning ==
    /\ family \in {"none", "linked_list"} /\ LongSeeding
    /\ \E data \in ListValues :
          ListCall("insert_at_beginning", data,
                   insert_at_beginning(MAX_STEPS, head, data, steps))
    /\ UNCHANGED frame

LongInsertAtEnd ==
    /\ family \in {"none", "linked_list"} /\ LongSeeding
    /\ \E data \in ListValues :
          ListCall("insert_at_end", data, insert_at_end(MAX_STEPS, head, data, steps))
    /\ UNCHANGED frame

(* the first value, the last value, and a value the list does not hold *)
LongSearchLinkedList ==
    /\ family = "linked_list" /\ LongSeeding
    /\ \E data \in {head[1], head[Len(head)], 0}, ub \in Overruns :
          ListCall("search_linked_list", data,
                   search_linked_list(MAX_STEPS, head, data, ub, steps))
    /\ UNCHANGED frame

FillBst ==
    /\ family = "none" /\ log = <<>>
    /\ \E n \in FillCounts :
          /\ root' = fill_bst(MAX_STEPS, root, n, steps).root
          /\ steps' = fill_bst(MAX_STEPS, root, n, steps).buf
          /\ log' = <<Call("fill", n, 0, "")>>
    /\ family' = "binary_search_tree"
    /\ UNCHANGED <<arr, head, stack, queue, doc, config, returned, overrun>>
    /\ UNCHANGED frame

(* a value the filled tree holds, and one it does not *)
LongBstValues == {FillBstValue(1), FillBstValue(MAX_SIZE + Slack + 1)}

LongInsertBst ==
    /\ family \in {"none", "binary_search_tree"} /\ LongSeeding
    /\ \E data \in LongBstValues :
          BstCall(<<Call("insert_bst", data, 0, "")>>,
                  insert_bst(MAX_STEPS, root, data, steps))
    /\ UNCHANGED frame

LongSearchBst ==
    /\ family = "binary_search_tree" /\ LongSeeding
    /\ \E data \in LongBstValues :
          BstCall(<<Call("search_bst", data,
                         search_bst(MAX_STEPS, root, data, steps).ret, "")>>,
                  [root |-> root, buf |-> search_bst(MAX_STEPS, root, data, steps).buf])
    /\ UNCHANGED frame

LongDeleteBst ==
    /\ family = "binary_search_tree" /\ LongSeeding
    /\ \E data \in LongBstValues :
          BstCall(<<Call("delete_bst", data, 0, "")>>,
                  delete_bst(MAX_STEPS, root, data, steps))
    /\ UNCHANGED frame

NextLong ==
    \/ FillStack
    \/ LongPush
    \/ LongPop
    \/ FillQueue
    \/ LongEnqueue
    \/ LongDequeue
    \/ FillList
    \/ LongInsertAtBeginning
    \/ LongInsertAtEnd
    \/ LongSearchLinkedList
    \/ FillBst
    \/ LongInsertBst
    \/ LongSearchBst
    \/ LongDeleteBst

SpecLong == Init /\ [][NextLong]_vars

(* ------------------------------------------------------------------ *)
(* The run followed one loop iteration at a time.  A call is entered,   *)
(* its loops and recursions advance by one iteration per step, with the *)
(* local variables in frame, and it returns (pc "returned").  The       *)
(* bodies of the iterations are those of the calls above.               *)
(* ------------------------------------------------------------------ *)
MaxStepLen == 3
MaxStepVal == 2

StepArrays ==
    UNION {[0..(n - 1) -> 1..MaxStepVal] : n \in MIN_ARRAY_SIZE..MaxStepLen}

Idle == frame.op = "none"

InCall == frame.op # "none" /\ frame.pc # "returned"

Exit(op) == [op |-> op, pc |-> "returned"]

(* main reads the array *)
ReadSmallArray ==
    /\ family = "none" /\ Idle
    /\ \E a \in StepArrays : arr' = a
    /\ family' = "array"
    /\ UNCHANGED <<steps, root, head, stack, queue, doc, config, returned, overrun, log,
                   frame>>

(* main populates the list or the tree before the call that is followed *)
SeedList == Idle /\ (InsertAtBeginning \/ InsertAtEnd)

SeedTree == Idle /\ (InsertBst \/ DemoBst)

ArrayOps == {"bubble_sort", "selection_sort", "insertion_sort", "quick_sort", "merge_sort",
             "linear_search", "binary_search"}

TreeOps == {"insert_bst", "search_bst", "delete_bst"}

(* merge_sort: a call in progress, with merge's locals while it merges  *)
MergeFrame(pc, left, mid, right) ==
    [pc |-> pc, left |-> left, mid |-> mid, right |-> right,
     left_arr |-> <<>>, right_arr |-> <<>>, i |-> 0, j |-> 0, k |-> 0]

(* the local variables of a call of op when it reaches its first loop;   *)
(* of a call on the tree: below is the node the call has reached, above *)
(* the calls that wait for it, result what the last call returned, temp *)
(* delete_bst's pointer to the successor, last the node search_bst's    *)
(* previous iteration checked                                           *)
Entry(op, target) ==
    CASE op = "bubble_sort"    -> [op |-> op, pc |-> "inner", i |-> 0, j |-> 0]
      [] op = "selection_sort" -> [op |-> op, pc |-> "outer", i |-> 0, j |-> 0, min_idx |-> 0]
      [] op = "insertion_sort" -> [op |-> op, pc |-> "outer", i |-> 1, j |-> 0, key |-> 0]
      [] op = "quick_sort"     -> [op |-> op, pc |-> "calls",
                                   calls |-> <<Frame("call", 0, Size(arr) - 1, -1)>>]
      [] op = "merge_sort"     -> [op |-> op, pc |-> "calls",
                                   temp |-> copy_array(arr, arr, Size(arr)),
                                   calls |-> <<MergeFrame("call", 0,
                                                   (Size(arr) - 1) \div 2,
                                                   Size(arr) - 1)>>]
      [] op = "linear_search"  -> [op |-> op, pc |-> "loop", i |-> 0, target |-> target]
      [] op = "binary_search"  -> [op |-> op, pc |-> "loop", left |-> 0,
                                   right |-> Size(arr) - 1, target |-> target]
      [] op = "search_linked_list" ->
                                  [op |-> op, pc |-> "loop", position |-> 0, data |-> target]
      [] op \in TreeOps        -> [op |-> op, pc |-> "down", data |-> target,
                                   below |-> root, above |-> <<>>, result |-> NULL,
                                   temp |-> NULL, last |-> NULL]

(* the steps a wrapper records before its first loop *)
EntrySteps(op) ==
    CASE op = "quick_sort" ->
             add_step(MAX_STEPS, steps, "QUICK_START", arr, Size(arr), Zeros, NULL,
                      <<"Starting Quick Sort Algorithm">>, "O(n log n)")
      [] op = "merge_sort" ->
             add_step(MAX_STEPS, steps, "MERGE_START", arr, Size(arr), Zeros, NULL,
                      <<"Starting Merge Sort Algorithm">>, "O(n log n)")
      [] OTHER -> steps

(* merge's loops, one iteration: the state is [arr, orig, i, j, k, buf] *)
merge_iteration(cap, original_size, f, m) ==
    IF m.i < Size(f.left_arr) /\ m.j < Size(f.right_arr)
    THEN merge_both(cap, original_size, f.left, f.mid, f.left_arr, f.right_arr, m)
    ELSE IF m.i < Size(f.left_arr)
    THEN merge_rest_left(cap, original_size, f.left_arr, m)
    ELSE merge_rest_right(cap, original_size, f.right_arr, m)

(* the call of merge_sort on top of the call stack runs to its next     *)
(* call, loop test or return; the state is [arr, orig, buf, calls]      *)
merge_sort_step(cap, original_size, st) ==
    LET f == Head(st.calls)
        rest == Tail(st.calls)
        m == [arr |-> st.arr, orig |-> st.orig, i |-> f.i, j |-> f.j, k |-> f.k,
              buf |-> st.buf]
    IN  CASE f.pc = "call" ->
                 IF f.left < f.right
                 THEN [st EXCEPT
                         !.buf = add_step(cap, st.buf, "MERGE_DIVIDE_LEFT", st.orig,
                                     original_size,
                                     [i \in 0..(MAX_SIZE - 1) |->
                                         IF f.left <= i /\ i <= f.mid THEN 1 ELSE 0],
                                     NULL,
                                     <<"Dividing: Left half [%d-%d]", f.left, f.mid>>,
                                     "O(n log n)"),
                         !.calls = <<MergeFrame("call", f.left,
                                                f.left + ((f.mid - f.left) \div 2), f.mid),
                                     [f EXCEPT !.pc = "left"]>> \o rest]
                 ELSE [st EXCEPT !.calls = rest]
          [] f.pc = "left" ->
                 [st EXCEPT
                    !.buf = add_step(cap, st.buf, "MERGE_DIVIDE_RIGHT", st.orig,
                                original_size,
                                [i \in 0..(MAX_SIZE - 1) |->
                                    IF f.mid + 1 <= i /\ i <= f.right THEN 2 ELSE 0],
                                NULL,
                                <<"Dividing: Right half [%d-%d]", f.mid + 1, f.right>>,
                                "O(n log n)"),
                    !.calls = <<MergeFrame("call", f.mid + 1,
                                    f.mid + 1 + ((f.right - (f.mid + 1)) \div 2), f.right),
                                [f EXCEPT !.pc = "right"]>> \o rest]
          [] f.pc = "right" ->
                 [st EXCEPT
                    !.buf = add_step(cap,
                                add_step(cap, st.buf, "MERGE_READY", st.orig, original_size,
                                    halves_highlight(f.left, f.mid, f.right), NULL,
                                    <<"Both halves sorted, ready to merge [%d-%d] and [%d-%d]",
                                      f.left, f.mid, f.mid + 1, f.right>>, "O(n log n)"),
                                "MERGE_START", st.orig, original_size,
                                halves_highlight(f.left, f.mid, f.right), NULL,
                                <<"Merging two sorted subarrays: Left[%d-%d] and Right[%d-%d]",
                                  f.left, f.mid, f.mid + 1, f.right>>, "O(n log n)"),
                    !.calls = <<[f EXCEPT
                                   !.pc = "merge",
                                   !.left_arr = [i \in 0..(f.mid - f.left) |->
                                                    st.arr[f.left + i]],
                                   !.right_arr = [j \in 0..(f.right - f.mid - 1) |->
                                                    st.arr[f.mid + 1 + j]],
                                   !.k = f.left]>> \o rest]
          [] OTHER ->
                 IF f.i < Size(f.left_arr) \/ f.j < Size(f.right_arr)
                 THEN [arr   |-> merge_iteration(cap, original_size, f, m).arr,
                       orig  |-> merge_iteration(cap, original_size, f, m).orig,
                       buf   |-> merge_iteration(cap, original_size, f, m).buf,
                       calls |-> <<[f EXCEPT
                                      !.i = merge_iteration(cap, original_size, f, m).i,
                                      !.j = merge_iteration(cap, original_size, f, m).j,
                                      !.k = merge_iteration(cap, original_size, f, m).k]>>
                                 \o rest]
                 ELSE [arr   |-> st.arr,
                       orig  |-> st.orig,
                       buf   |-> merge_complete(cap, original_size, f.left, f.right, m).buf,
                       calls |-> rest]

(* a walk to the successor that stays on the node it is on *)
leftmost_stay(temp) == temp

(* while (temp->left != NULL): one iteration *)
leftmost_step(temp) == Left(temp)

(* the node a call on the tree goes to from root_ *)
Child(root_, data) == IF data < Data(root_) THEN Left(root_) ELSE Right(root_)

(* the local variables after one more iteration of the call in         *)
(* progress: they depend on the data the call works on and on no        *)
(* recorded step, so the bodies are asked for them with no buffer       *)
NextFrame ==
    CASE frame.op = "bubble_sort" ->
             IF frame.i < Size(arr) - 1
             THEN IF frame.j < Size(arr) - frame.i - 1
                  THEN [frame EXCEPT !.j = @ + 1]
                  ELSE [frame EXCEPT !.i = @ + 1, !.j = 0]
             ELSE Exit(frame.op)
      [] frame.op = "selection_sort" ->
             IF frame.pc = "outer"
             THEN IF frame.i < Size(arr) - 1
                  THEN [frame EXCEPT !.pc = "inner", !.j = frame.i + 1, !.min_idx = frame.i]
                  ELSE Exit(frame.op)
             ELSE IF frame.j < Size(arr)
                  THEN [frame EXCEPT
                          !.j = @ + 1,
                          !.min_idx = selection_inner(0, Size(arr), frame.i, frame.j,
                                          [arr |-> arr, min_idx |-> frame.min_idx,
                                           buf |-> <<>>]).min_idx]
                  ELSE [frame EXCEPT !.pc = "outer", !.i = @ + 1]
      [] frame.op = "insertion_sort" ->
             IF frame.pc = "outer"
             THEN IF frame.i < Size(arr)
                  THEN [frame EXCEPT !.pc = "while", !.key = arr[frame.i], !.j = frame.i - 1]
                  ELSE Exit(frame.op)
             ELSE IF frame.j >= 0 /\ arr[frame.j] > frame.key
                  THEN [frame EXCEPT
                          !.j = insertion_shift(0, Size(arr), frame.key,
                                    [arr |-> arr, j |-> frame.j, buf |-> <<>>]).j]
                  ELSE [frame EXCEPT !.pc = "outer", !.i = @ + 1]
      [] frame.op = "quick_sort" ->
             IF frame.calls # <<>>
             THEN [frame EXCEPT
                     !.calls = quick_sort_step(0, Size(arr),
                                   [arr |-> arr, buf |-> <<>>, calls |-> frame.calls]).calls]
             ELSE Exit(frame.op)
      [] frame.op = "merge_sort" ->
             IF frame.calls # <<>>
             THEN [frame EXCEPT
                     !.temp = merge_sort_step(0, Size(arr),
                                  [arr |-> frame.temp, orig |-> arr, buf |-> <<>>,
                                   calls |-> frame.calls]).arr,
                     !.calls = merge_sort_step(0, Size(arr),
                                   [arr |-> frame.temp, orig |-> arr, buf |-> <<>>,
                                    calls |-> frame.calls]).calls]
             ELSE Exit(frame.op)
      [] frame.op = "linear_search" ->
             IF frame.i < Size(arr) /\ arr[frame.i] # frame.target
             THEN [frame EXCEPT !.i = @ + 1]
             ELSE Exit(frame.op)
      [] frame.op = "binary_search" ->
             LET mid == frame.left + ((frame.right - frame.left) \div 2)
             IN  IF frame.left <= frame.right /\ arr[mid] # frame.target
                 THEN IF arr[mid] < frame.target
                      THEN [frame EXCEPT !.left = mid + 1]
                      ELSE [frame EXCEPT !.right = mid - 1]
                 ELSE Exit(frame.op)
      [] frame.op = "search_linked_list" ->
             IF frame.position < Len(head) /\ head[frame.position + 1] # frame.data
             THEN [frame EXCEPT !.position = @ + 1]
             ELSE Exit(frame.op)
      [] frame.op = "search_bst" ->
             IF frame.below # NULL /\ frame.data # Data(frame.below)
             THEN [frame EXCEPT !.below = Child(@, frame.data), !.last = frame.below]
             ELSE Exit(frame.op)
      [] frame.op = "insert_bst" ->
             IF frame.pc = "down"
             THEN IF frame.below # NULL /\ frame.data # Data(frame.below)
                  THEN [frame EXCEPT !.above = <<frame.below>> \o @,
                                     !.below = Child(@, frame.data)]
                  ELSE [frame EXCEPT
                          !.pc = "up",
                          !.result = insert_bst(0, frame.below, frame.data, <<>>).root]
             ELSE IF frame.above # <<>>
                  THEN [frame EXCEPT
                          !.above = Tail(@),
                          !.result =
                              IF frame.data < Data(Head(frame.above))
                              THEN insert_bst_left(0, Head(frame.above), frame.data,
                                       [root |-> frame.result, buf |-> <<>>]).root
                              ELSE insert_bst_right(0, Head(frame.above), frame.data,
                                       [root |-> frame.result, buf |-> <<>>]).root]
                  ELSE Exit(frame.op)
      [] frame.op = "delete_bst" ->
             IF frame.pc = "down"
             THEN IF frame.below = NULL
                  THEN [frame EXCEPT !.pc = "up", !.result = NULL]
                  ELSE IF frame.data # Data(frame.below)
                  THEN [frame EXCEPT
                          !.above = <<[node |-> frame.below,
                                       left |-> frame.data < Data(frame.below)]>> \o @,
                          !.below = Child(@, frame.data)]
                  ELSE IF Left(frame.below) = NULL
                  THEN [frame EXCEPT !.pc = "up", !.result = Right(frame.below)]
                  ELSE IF Right(frame.below) = NULL
                  THEN [frame EXCEPT !.pc = "up", !.result = Left(frame.below)]
                  ELSE [frame EXCEPT !.pc = "leftmost", !.temp = Right(frame.below)]
             ELSE IF frame.pc = "leftmost"
             THEN IF Left(frame.temp) # NULL
                  THEN [frame EXCEPT !.temp = leftmost_step(@)]
                  ELSE [frame EXCEPT
                          !.pc = "down",
                          !.above = <<[node |-> Node(Data(frame.temp), Left(frame.below),
                                                     Right(frame.below)),
                                       left |-> FALSE]>> \o @,
                          !.below = Right(frame.below),
                          !.data = Data(frame.temp)]
             ELSE IF frame.above # <<>>
                  THEN [frame EXCEPT
                          !.above = Tail(@),
                          !.result =
                              IF Head(frame.above).left
                              THEN delete_bst_left(0, Head(frame.above).node,
                                       [root |-> frame.result, buf |-> <<>>]).root
                              ELSE delete_bst_right(0, Head(frame.above).node,
                                       [root |-> frame.result, buf |-> <<>>]).root]
                  ELSE Exit(frame.op)

(* one iteration of a call on the array: r is [arr, buf] after it *)
Iterate(r) ==
    /\ arr' = r.arr
    /\ steps' = r.buf
    /\ frame' = NextFrame
    /\ UNCHANGED <<root, head, stack, queue, doc, config, returned, overrun, family, log>>

(* a sort or a search is called on the array as main read it; the       *)
(* searches are given every element and two absent values               *)
EnterArrayCall ==
    /\ family = "array" /\ Idle /\ log = <<>>
    /\ \E op \in ArrayOps :
       \E target \in IF op \in {"linear_search", "binary_search"} THEN Targets(arr) ELSE {0} :
          /\ frame' = Entry(op, target)
          /\ steps' = EntrySteps(op)
          /\ log' = <<Call(op, [arr |-> arr, target |-> target], 0, "")>>
    /\ UNCHANGED <<arr, root, head, stack, queue, doc, config, returned, overrun, family>>

(* bubble_sort: one test of a loop condition and the body it guards *)
BubbleSortStep ==
    /\ frame.op = "bubble_sort" /\ InCall
    /\ IF frame.i < Size(arr) - 1
       THEN IF frame.j < Size(arr) - frame.i - 1
            THEN Iterate(bubble_inner(MAX_STEPS, Size(arr), frame.j,
                                      [arr |-> arr, buf |-> steps]))
            ELSE Iterate([arr |-> arr, buf |-> steps])
       ELSE Iterate(bubble_complete(MAX_STEPS, Size(arr), [arr |-> arr, buf |-> steps]))

(* selection_sort *)
SelectionSortStep ==
    /\ frame.op = "selection_sort" /\ InCall
    /\ IF frame.pc = "outer"
       THEN IF frame.i < Size(arr) - 1
            THEN Iterate([arr |-> arr,
                          buf |-> add_step(MAX_STEPS, steps, "SELECTION_START", arr,
                                           Size(arr), [Zeros EXCEPT ![frame.i] = 1], NULL,
                                           <<"Starting new pass">>, "O(n^2)")])
            ELSE Iterate(selection_complete(MAX_STEPS, Size(arr),
                                            [arr |-> arr, buf |-> steps]))
       ELSE IF frame.j < Size(arr)
            THEN Iterate(selection_inner(MAX_STEPS, Size(arr), frame.i, frame.j,
                            [arr |-> arr, min_idx |-> frame.min_idx, buf |-> steps]))
            ELSE Iterate(selection_swap(MAX_STEPS, Size(arr), frame.i,
                            [arr |-> arr, min_idx |-> frame.min_idx, buf |-> steps]))

(* insertion_sort *)
InsertionSortStep ==
    /\ frame.op = "insertion_sort" /\ InCall
    /\ IF frame.pc = "outer"
       THEN IF frame.i < Size(arr)
            THEN Iterate([arr |-> arr,
                          buf |-> add_step(MAX_STEPS, steps, "INSERTION_START", arr,
                                           Size(arr), [Zeros EXCEPT ![frame.i] = 1], NULL,
                                           <<"Inserting element %d", arr[frame.i]>>,
                                           "O(n^2)")])
            ELSE Iterate(insertion_complete(MAX_STEPS, Size(arr),
                                            [arr |-> arr, buf |-> steps]))
       ELSE IF frame.j >= 0 /\ arr[frame.j] > frame.key
            THEN Iterate(insertion_shift(MAX_STEPS, Size(arr), frame.key,
                            [arr |-> arr, j |-> frame.j, buf |-> steps]))
            ELSE Iterate(insertion_place(MAX_STEPS, Size(arr), frame.key,
                            [arr |-> arr, j |-> frame.j, buf |-> steps]))

(* quick_sort: the call on top of the call stack runs to its next call  *)
(* or return; quick_sort_wrapper ends when the stack is empty           *)
QuickSortStep ==
    /\ frame.op = "quick_sort" /\ InCall
    /\ IF frame.calls # <<>>
       THEN Iterate(quick_sort_step(MAX_STEPS, Size(arr),
                        [arr |-> arr, buf |-> steps, calls |-> frame.calls]))
       ELSE Iterate(quick_sort_complete(MAX_STEPS, [arr |-> arr, buf |-> steps], Size(arr)))

(* merge_sort_wrapper ends when the call stack is empty *)
MergeSortStep ==
    /\ frame.op = "merge_sort" /\ InCall
    /\ LET st == [arr |-> frame.temp, orig |-> arr, buf |-> steps, calls |-> frame.calls]
       IN  IF frame.calls # <<>>
           THEN Iterate([arr |-> merge_sort_step(MAX_STEPS, Size(arr), st).orig,
                         buf |-> merge_sort_step(MAX_STEPS, Size(arr), st).buf])
           ELSE Iterate(merge_sort_complete(MAX_STEPS, Size(arr), st))

(* linear_search *)
LinearSearchStep ==
    /\ frame.op = "linear_search" /\ InCall
    /\ IF frame.i < Size(arr)
       THEN Iterate([arr |-> arr,
                     buf |-> linear_body(MAX_STEPS, arr, Size(arr), frame.target, frame.i,
                                         [returned |-> FALSE, buf |-> steps]).buf])
       ELSE Iterate([arr |-> arr,
                     buf |-> linear_not_found(MAX_STEPS, arr, Size(arr),
                                              [returned |-> FALSE, buf |-> steps])])

(* binary_search, on the array as it is: sorted or not *)
BinarySearchStep ==
    /\ frame.op = "binary_search" /\ InCall
    /\ LET mid == frame.left + ((frame.right - frame.left) \div 2)
       IN  IF frame.left <= frame.right
           THEN IF arr[mid] = frame.target
                THEN Iterate([arr |-> arr,
                              buf |-> binary_body(MAX_STEPS, arr, Size(arr), frame.target,
                                                  frame.left, frame.right, mid, steps)])
                ELSE Iterate([arr |-> arr,
                              buf |-> binary_check(MAX_STEPS, arr, Size(arr), frame.left,
                                                   frame.right, mid, steps)])
           ELSE Iterate([arr |-> arr,
                         buf |-> binary_loop(MAX_STEPS, arr, Size(arr), frame.target,
                                             frame.left, frame.right, steps)])

(* one iteration of a call on the list or the tree *)
IterateLinked(t, buf) ==
    /\ root' = t
    /\ steps' = buf
    /\ frame' = NextFrame
    /\ UNCHANGED <<arr, head, stack, queue, doc, config, returned, overrun, family, log>>

(* search_linked_list is called with a value of the list or an absent one *)
EnterListCall ==
    /\ family = "linked_list" /\ Idle
    /\ \E data \in {head[i] : i \in 1..Len(head)} \cup {0} :
          /\ frame' = Entry("search_linked_list", data)
          /\ log' = Append(log, Call("search_linked_list", data, 0, ""))
    /\ UNCHANGED <<steps, arr, root, head, stack, queue, doc, config, returned, overrun,
                   family>>

(* while (temp != NULL); the lists followed are shorter than MAX_SIZE,  *)
(* so that highlighted[position] = 2 stays inside the array             *)
SearchLinkedListStep ==
    /\ frame.op = "search_linked_list" /\ InCall
    /\ LET st == [returned |-> FALSE, buf |-> steps, overrun |-> {}]
       IN  IF frame.position < Len(head)
           THEN IterateLinked(root,
                    search_list_body(MAX_STEPS, head, frame.data, "unseen",
                                     frame.position, st).buf)
           ELSE IterateLinked(root, search_list_not_found(MAX_STEPS, head, st).buf)

EnterBstCall ==
    /\ family \in {"none", "binary_search_tree"} /\ Idle
    /\ \E op \in TreeOps :
       \E data \in IF op = "insert_bst" THEN BstValues ELSE BstTargets(root) :
          /\ frame' = Entry(op, data)
          /\ log' = Append(log, Call(op, data, 0, ""))
    /\ family' = "binary_search_tree"
    /\ UNCHANGED <<steps, arr, root, head, stack, queue, doc, config, returned, overrun>>

(* insert_bst: one call is entered, or one call returns *)
InsertBstStep ==
    /\ frame.op = "insert_bst" /\ InCall
    /\ IF frame.pc = "down"
       THEN IF frame.below # NULL /\ frame.data # Data(frame.below)
            THEN IterateLinked(root, steps)
            ELSE IterateLinked(root,
                     insert_bst(MAX_STEPS, frame.below, frame.data, steps).buf)
       ELSE IF frame.above # <<>>
            THEN IF frame.data < Data(Head(frame.above))
                 THEN IterateLinked(root,
                          insert_bst_left(MAX_STEPS, Head(frame.above), frame.data,
                              [root |-> frame.result, buf |-> steps]).buf)
                 ELSE IterateLinked(root,
                          insert_bst_right(MAX_STEPS, Head(frame.above), frame.data,
                              [root |-> frame.result, buf |-> steps]).buf)
            ELSE IterateLinked(frame.result, steps)

(* what search_bst's previous iteration left in tree_arr, index and     *)
(* highlighted: last is the node it checked                             *)
Checked(root_, last) ==
    IF last = NULL THEN [arr |-> Zeros, index |-> 0, highlighted |-> Zeros]
    ELSE [arr         |-> tree_to_array(root_, Zeros, 0, 0, MAX_SIZE).arr,
          index       |-> tree_to_array(root_, Zeros, 0, 0, MAX_SIZE).index,
          highlighted |-> first_match(tree_to_array(root_, Zeros, 0, 0, MAX_SIZE),
                                      Data(last), 1)]

(* search_bst: while (current != NULL) *)
SearchBstStep ==
    /\ frame.op = "search_bst" /\ InCall
    /\ IF frame.below # NULL /\ frame.data # Data(frame.below)
       THEN IterateLinked(root,
                search_bst_check(MAX_STEPS, tree_to_array(root, Zeros, 0, 0, MAX_SIZE),
                                 frame.below, frame.data, steps))
       ELSE IterateLinked(root,
                search_bst_loop(MAX_STEPS, root, frame.below, frame.data, steps,
                                Checked(root, frame.last)).buf)

(* delete_bst: one call is entered, the walk to the successor advances, *)
(* or one call returns; a call that finds data at a node with two       *)
(* children walks to the leftmost node of the right subtree (temp) and  *)
(* calls itself on that subtree with its value                          *)
DeleteBstStep ==
    /\ frame.op = "delete_bst" /\ InCall
    /\ IF frame.pc = "down"
       THEN IF frame.below = NULL
            THEN IterateLinked(root, delete_bst(MAX_STEPS, NULL, frame.data, steps).buf)
            ELSE IF frame.data # Data(frame.below)
            THEN IterateLinked(root,
                     delete_bst_search(MAX_STEPS, frame.below,
                         tree_to_array(frame.below, Zeros, 0, 0, MAX_SIZE), frame.data,
                         steps))
            ELSE IterateLinked(root,
                     delete_bst_found(MAX_STEPS, frame.below,
                         tree_to_array(frame.below, Zeros, 0, 0, MAX_SIZE), frame.data,
                         steps))
       ELSE IF frame.pc = "leftmost"
       THEN IterateLinked(root, steps)
       ELSE IF frame.above # <<>>
            THEN IF Head(frame.above).left
                 THEN IterateLinked(root,
                          delete_bst_left(MAX_STEPS, Head(frame.above).node,
                              [root |-> frame.result, buf |-> steps]).buf)
                 ELSE IterateLinked(root,
                          delete_bst_right(MAX_STEPS, Head(frame.above).node,
                              [root |-> frame.result, buf |-> steps]).buf)
            ELSE IterateLinked(frame.result, steps)

NextSteps ==
    \/ ReadSmallArray
    \/ EnterArrayCall
    \/ BubbleSortStep
    \/ SelectionSortStep
    \/ InsertionSortStep
    \/ QuickSortStep
    \/ MergeSortStep
    \/ LinearSearchStep
    \/ BinarySearchStep
    \/ SeedList
    \/ EnterListCall
    \/ SearchLinkedListStep
    \/ SeedTree
    \/ EnterBstCall
    \/ InsertBstStep
    \/ SearchBstStep
    \/ DeleteBstStep

(* the call in progress takes its next step *)
Advance == InCall /\ frame' = NextFrame

(* the program is sequential and goes on executing: a call in progress  *)
(* that can take a step takes it.  A step of a call in progress is the  *)
(* only step that changes frame to NextFrame, and it can be taken       *)
(* wherever NextFrame differs from frame.  What main reads and which    *)
(* call it makes is the user's choice and is not forced.                *)
SpecSteps == Init /\ [][NextSteps]_vars /\ WF_frame(Advance)

(* ------------------------------------------------------------------ *)
(* Properties of the trace buffer and of the sorting operations         *)
(* ------------------------------------------------------------------ *)
SortOps == {"bubble_sort", "selection_sort", "insertion_sort", "quick_sort", "merge_sort"}

CompleteAction(op) ==
    CASE op = "bubble_sort" -> "BUBBLE_COMPLETE"
      [] op = "selection_sort" -> "SELECTION_COMPLETE"
      [] op = "insertion_sort" -> "INSERTION_COMPLETE"
      [] op = "quick_sort" -> "QUICK_COMPLETE"
      [] op = "merge_sort" -> "MERGE_COMPLETE"

(* a[0..n-1] is non-decreasing *)
NonDecreasing(a, n) == \A i \in 0..(n - 2) : a[i] <= a[i + 1]

(* a[0..n-1] and b[0..n-1] hold the same values the same number of times *)
Permutation(a, b, n) ==
    \A v \in {a[i] : i \in 0..(n - 1)} \cup {b[i] : i \in 0..(n - 1)} :
        Cardinality({i \in 0..(n - 1) : a[i] = v}) = Cardinality({i \in 0..(n - 1) : b[i] = v})

(* one array operation of main has run on the array main read, and main
   has not returned *)
ArrayRun == family = "array" /\ log # <<>> /\ returned = NULL

SortRun == ArrayRun /\ log[1].op \in SortOps

Input == log[1].arg.arr

(* C1: step_count always lies in 0..MAX_STEPS, and add_step called on a
   buffer holding MAX_STEPS steps returns it with every stored step and the
   count unchanged *)
C1_BufferBounded ==
    /\ step_count \in 0..MAX_STEPS
    /\ step_count = MAX_STEPS =>
          add_step(MAX_STEPS, steps, "BUBBLE_COMPARE", Input, Size(Input), Zeros,
                   NULL, "Comparing elements", "O(n^2)") = steps

(* C1 witness: a sort whose steps exceed the buffer has filled it *)
C1_BufferFull == SortRun /\ step_count = MAX_STEPS /\ Size(Input) = MAX_ARRAY_SIZE

(* C2 as stated: after every sort the data of the last stored step is
   non-decreasing and a permutation of the input *)
C2_LastStepSorted ==
    SortRun =>
        /\ steps # <<>>
        /\ Last(steps).size = Size(Input)
        /\ NonDecreasing(Last(steps).data, Size(Input))
        /\ Permutation(Last(steps).data, Input, Size(Input))

(* C2 amended: the array is sorted and a permutation of the input when the
   sort returns; the last stored step is the sort's completion step unless
   the buffer filled up, and a stored completion step carries that sorted
   permutation *)
C2_LastStepSortedIfComplete ==
    SortRun =>
        /\ NonDecreasing(arr, Size(Input))
        /\ Permutation(arr, Input, Size(Input))
        /\ steps # <<>>
        /\ step_count < MAX_STEPS => Last(steps).action = CompleteAction(log[1].op)
        /\ Last(steps).action = CompleteAction(log[1].op) =>
              /\ Last(steps).size = Size(Input)
              /\ NonDecreasing(Last(steps).data, Size(Input))
              /\ Permutation(Last(steps).data, Input, Size(Input))

(* C2 witness: merge sort of the 50-element descending array ended with its
   completion step *)
C2_CompleteStepStored ==
    /\ SortRun /\ log[1].op = "merge_sort" /\ Input = Descending
    /\ Last(steps).action = "MERGE_COMPLETE"

(* the array operation op of main, run with a buffer of capacity cap on
   the array a main read *)
ArrayOp(cap, op, a, target) ==
    CASE op = "bubble_sort" -> bubble_sort(cap, a, Size(a), <<>>)
      [] op = "selection_sort" -> selection_sort(cap, a, Size(a), <<>>)
      [] op = "insertion_sort" -> insertion_sort(cap, a, Size(a), <<>>)
      [] op = "quick_sort" -> quick_sort_wrapper(cap, a, Size(a), <<>>)
      [] op = "merge_sort" -> merge_sort_wrapper(cap, a, Size(a), <<>>)
      [] op = "linear_search" -> linear_search(cap, a, Size(a), target, <<>>)
      [] op = "binary_search" ->
            binary_search(cap, presort(a, Size(a), <<>>), Size(a), target, <<>>)

Capacities == (0..MaxCap) \cup {MAX_STEPS}

(* the run bounded by capacity c agrees with the unbounded run u *)
Truncates(c, bounded, u) ==
    /\ bounded.arr = u.arr
    /\ bounded.buf = SubSeq(u.buf, 1, Min(c, Len(u.buf)))

(* C3: an operation run with a buffer of capacity C leaves the same array
   as the run with an unbounded buffer (sorted, for a sort), and its trace
   is the first min(C, N) steps of the unbounded trace of N steps; the run
   main made is the one with C = MAX_STEPS *)
C3_TruncationIsPrefix ==
    (ArrayRun /\ Len(log) = 1) =>
        LET op == log[1].op
            target == log[1].arg.target
            u == ArrayOp(Unbounded, op, Input, target)
        IN  /\ Ready(u.buf)
            /\ Truncates(MAX_STEPS, [arr |-> arr, buf |-> steps], u)
            /\ \A c \in Capacities : Truncates(c, ArrayOp(c, op, Input, target), u)
            /\ op \in SortOps => NonDecreasing(arr, Size(Input))

(* C3 witness: quick sort of the descending array produced more steps than
   the buffer holds, and the buffer kept the first MAX_STEPS of them *)
C3_Truncated ==
    /\ ArrayRun /\ log[1].op = "quick_sort" /\ Input = Descending
    /\ Len(ArrayOp(Unbounded, "quick_sort", Input, 0).buf) > step_count

(* ------------------------------------------------------------------ *)
(* Properties of the step records and of the trace document             *)
(* ------------------------------------------------------------------ *)
(* the number of stored steps whose action is a *)
CountAction(a) == Cardinality({i \in 1..Len(steps) : steps[i].action = a})

BufferStepShaped(s) ==
    /\ Size(s.data) = s.size
    /\ Size(s.highlighted) = Size(s.data)
    /\ Size(s.pointers) = NPOINTERS

DocStepShaped(o) ==
    /\ Len(o.highlighted) = Len(o.data)
    /\ Len(o.pointers) = NPOINTERS

(* C4: in every stored step and in every step object of the document the
   highlighted and data sequences have the same length and there are
   exactly 10 pointers; the document's total_steps is the number of its
   step objects *)
C4_StepsWellShaped ==
    /\ \A i \in 1..Len(steps) : BufferStepShaped(steps[i])
    /\ doc # NULL =>
          /\ \A i \in 1..Len(doc.steps) : DocStepShaped(doc.steps[i])
          /\ doc.total_steps = Len(doc.steps)
          /\ returned = NULL => Len(doc.steps) = step_count

(* C4 witness: the document of a full buffer was written *)
C4_FullDocumentWritten == doc # NULL /\ doc.total_steps = MAX_STEPS

(* ------------------------------------------------------------------ *)
(* Properties of the binary search tree                                 *)
(* ------------------------------------------------------------------ *)
Flatten(t) == tree_to_array(t, Zeros, 0, 0, MAX_SIZE)

TreeValues(t) == {Flatten(t).arr[i] : i \in 0..(Flatten(t).index - 1)}

Inorder(t) == inorder_traversal(t, Zeros, 0)

Inserted == {log[k].arg : k \in {k \in 1..Len(log) : log[k].op = "insert_bst"}}

(* the tree is what the insert_bst calls of the log built: no deletion was
   made and main has not returned *)
InsertsOnly ==
    /\ family = "binary_search_tree" /\ returned = NULL
    /\ \A k \in 1..Len(log) : log[k].op # "delete_bst"

(* C5: after any sequence of insert_bst calls from the empty tree, the
   inorder traversal is strictly increasing and holds exactly the distinct
   values inserted *)
C5_InorderIsSortedSet ==
    InsertsOnly =>
        /\ \A i \in 0..(Inorder(root).index - 2) :
              Inorder(root).arr[i] < Inorder(root).arr[i + 1]
        /\ {Inorder(root).arr[i] : i \in 0..(Inorder(root).index - 1)} = Inserted

(* C5 witness: a value was inserted twice among MaxBstCalls insertions that
   built a tree of several nodes *)
C5_RepeatedInsertions ==
    /\ InsertsOnly /\ Len(log) = MaxBstCalls
    /\ \E i, j \in 1..Len(log) : i < j /\ log[i].arg = log[j].arg
    /\ Inorder(root).index >= 2

(* C6 as stated: insert_bst of a value the tree already holds leaves the
   pre-order flattening and the node count as they were and appends no
   step *)
C6_DuplicateInsertIsNoOp ==
    [][(/\ Len(log') = Len(log) + 1
        /\ Last(log').op = "insert_bst"
        /\ Last(log').arg \in TreeValues(root))
       => (Flatten(root') = Flatten(root) /\ steps' = steps)]_vars

(* ------------------------------------------------------------------ *)
(* Properties of the stack and of the queue                             *)
(* ------------------------------------------------------------------ *)
(* the calls of the log made to operations in ops *)
Calls(ops) == SelectSeq(log, LAMBDA e : e.op \in ops)

(* none of the calls in s printed an overflow or underflow notice *)
NoNotice(s) == \A i \in 1..Len(s) : s[i].notice = ""

(* the values pushed and not yet popped after the first k calls of s *)
RECURSIVE Pending(_, _)
Pending(s, k) ==
    IF k = 0 THEN <<>>
    ELSE IF s[k].op = "push" THEN Append(Pending(s, k - 1), s[k].arg)
    ELSE SubSeq(Pending(s, k - 1), 1, Len(Pending(s, k - 1)) - 1)

(* C7: in a sequence of pushes and pops without overflow or underflow,
   every pop returns the most recently pushed value not yet popped; when
   all pushes come before all pops, the pops return the pushed values in
   reverse order *)
C7_StackIsLifo ==
    LET s == Calls({"push", "pop"})
    IN  (family = "stack" /\ NoNotice(s)) =>
            /\ \A k \in 1..Len(s) :
                  s[k].op = "pop" => s[k].ret = Last(Pending(s, k - 1))
            /\ \A m \in 0..Len(s) :
                  (/\ \A i \in 1..m : s[i].op = "push"
                   /\ \A i \in (m + 1)..Len(s) : s[i].op = "pop")
                  => \A i \in 1..(Len(s) - m) : s[m + i].ret = s[m + 1 - i].arg

(* C7 witness: two different values were pushed and then both popped *)
C7_PushedThenPopped ==
    LET s == Calls({"push", "pop"})
    IN  /\ family = "stack" /\ NoNotice(s) /\ Len(s) = 4
        /\ s[1].op = "push" /\ s[2].op = "push" /\ s[1].arg # s[2].arg
        /\ s[3].op = "pop" /\ s[4].op = "pop"

(* C8: in a sequence of enqueues and dequeues without underflow or rejected
   enqueue, the values the dequeues return are a prefix of the values
   enqueued, in the order they were enqueued *)
C8_QueueIsFifo ==
    LET s == Calls({"enqueue", "dequeue"})
        e == SelectSeq(s, LAMBDA c : c.op = "enqueue")
        d == SelectSeq(s, LAMBDA c : c.op = "dequeue")
    IN  (family = "queue" /\ NoNotice(s)) =>
            /\ Len(d) <= Len(e)
            /\ \A i \in 1..Len(d) : d[i].ret = e[i].arg

(* C8 witness: two different values were enqueued and a dequeue followed *)
C8_EnqueuedThenDequeued ==
    LET s == Calls({"enqueue", "dequeue"})
    IN  /\ family = "queue" /\ NoNotice(s) /\ Len(s) >= 3
        /\ s[1].op = "enqueue" /\ s[2].op = "enqueue" /\ s[1].arg # s[2].arg
        /\ s[3].op = "dequeue"

(* ------------------------------------------------------------------ *)
(* Properties of binary search and of the bubble sort example           *)
(* ------------------------------------------------------------------ *)
(* the least e with 2^e >= n, for 1 <= n <= MAX_SIZE *)
CeilLog2(n) == CHOOSE e \in 0..7 : 2^e >= n /\ (e = 0 \/ 2^(e - 1) < n)

(* main has run binary_search for Target on the array it sorted first *)
BinaryRun == ArrayRun /\ log[1].op = "binary_search"

Target == log[1].arg.target

(* the indices of the sorted array that hold the target *)
Holders == {k \in 0..(Size(arr) - 1) : arr[k] = Target}

(* the last BINARY_SEARCH step stored *)
LastProbe ==
    steps[CHOOSE i \in 1..Len(steps) :
            /\ steps[i].action = "BINARY_SEARCH"
            /\ \A j \in (i + 1)..Len(steps) : steps[j].action # "BINARY_SEARCH"]

(* C9 as stated: for every index k of the sorted array that holds the
   target, at most ceil(log2 n) + 1 BINARY_SEARCH steps are recorded, the
   last of them has pointers[2] = k, and the final step is
   BINARY_SEARCH_FOUND with highlighted[k] = 2 *)
C9_ConvergesToEveryHolder ==
    BinaryRun =>
        \A k \in Holders :
            /\ CountAction("BINARY_SEARCH") <= CeilLog2(Size(arr)) + 1
            /\ LastProbe.pointers[2] = k
            /\ Last(steps).action = "BINARY_SEARCH_FOUND"
            /\ Last(steps).highlighted[k] = 2

(* C9 amended: when the sorted array holds the target, at most
   ceil(log2 n) + 1 BINARY_SEARCH steps are recorded, pointers[2] of the
   last of them is an index m that holds the target, which is k when k is
   the only such index, and the final step is BINARY_SEARCH_FOUND with
   highlighted[m] = 2 *)
C9_ConvergesToSomeHolder ==
    (BinaryRun /\ Holders # {}) =>
        /\ CountAction("BINARY_SEARCH") \in 1..(CeilLog2(Size(arr)) + 1)
        /\ LastProbe.pointers[2] \in Holders
        /\ \A k \in Holders : Holders = {k} => LastProbe.pointers[2] = k
        /\ Last(steps).action = "BINARY_SEARCH_FOUND"
        /\ Last(steps).highlighted[LastProbe.pointers[2]] = 2
        /\ Last(steps).pointers[2] = LastProbe.pointers[2]

(* C9 witness: a target was found in the sorted 4-element example with as
   many probes as the bound allows *)
C9_FoundAtTheBound ==
    /\ BinaryRun /\ Input = Example /\ Holders # {}
    /\ CountAction("BINARY_SEARCH") = CeilLog2(Size(arr)) + 1
    /\ Last(steps).action = "BINARY_SEARCH_FOUND"

ExampleRun == ArrayRun /\ log[1].op = "bubble_sort" /\ Input = Example

(* what C10 says of the example besides the number of swaps: the final
   data is [1, 3, 5, 8] and the only BUBBLE_COMPLETE step is the last
   step, with no index highlighted *)
ExampleCompleted ==
    /\ Last(steps).data = ArrayOf(<<1, 3, 5, 8>>)
    /\ CountAction("BUBBLE_COMPLETE") = 1
    /\ Last(steps).action = "BUBBLE_COMPLETE"
    /\ \A i \in 0..(Last(steps).size - 1) : Last(steps).highlighted[i] = 0

(* C10 as stated: bubble_sort on [5, 3, 8, 1] ends with data [1, 3, 5, 8],
   records exactly 3 BUBBLE_SWAP steps and exactly one BUBBLE_COMPLETE
   step, which is the last step and highlights nothing *)
C10_ThreeSwaps ==
    ExampleRun => (ExampleCompleted /\ CountAction("BUBBLE_SWAP") = 3)

(* C10 amended: the same, with exactly 4 BUBBLE_SWAP steps, one for each
   inversion of [5, 3, 8, 1] *)
C10_FourSwaps ==
    ExampleRun => (ExampleCompleted /\ CountAction("BUBBLE_SWAP") = 4)

(* C10 witness: bubble_sort has run on [5, 3, 8, 1] and stored its 11 steps *)
C10_ExampleSorted == ExampleRun /\ step_count = 11

(* ------------------------------------------------------------------ *)
(* Properties of delete_bst                                             *)
(* ------------------------------------------------------------------ *)
(* this step is one call of delete_bst *)
DeleteStep == Len(log') = Len(log) + 1 /\ Last(log').op = "delete_bst"

StrictlyIncreasing(r) == \A i \in 0..(r.index - 2) : r.arr[i] < r.arr[i + 1]

InorderValues(t) == {Inorder(t).arr[i] : i \in 0..(Inorder(t).index - 1)}

Least(S) == CHOOSE x \in S : \A y \in S : x <= y

(* t2 is t but for the node that holds v, which, if it has two children
   in t, is in its place in t2 with its left subtree and with the least
   value of its right subtree *)
RECURSIVE SuccessorInPlace(_, _, _)
SuccessorInPlace(t, t2, v) ==
    IF Data(t) = v
    THEN (Left(t) # NULL /\ Right(t) # NULL) =>
            /\ t2 # NULL
            /\ Data(t2) = Least(InorderValues(Right(t)))
            /\ Left(t2) = Left(t)
    ELSE /\ t2 # NULL
         /\ Data(t2) = Data(t)
         /\ IF v < Data(t)
            THEN Right(t2) = Right(t) /\ SuccessorInPlace(Left(t), Left(t2), v)
            ELSE Left(t2) = Left(t) /\ SuccessorInPlace(Right(t), Right(t2), v)

DemoTree == demo_bst(MAX_STEPS, NULL, <<>>).root

(* C11: delete_bst of a value v the tree holds returns a tree whose inorder
   traversal is strictly increasing and whose values are the previous ones
   without v; a node with two children keeps its place and takes the least
   value of its right subtree.  Deleting 30 from the tree built by
   inserting 50, 30, 70, 20, 40, 60, 80 leaves 40 where 30 was and the
   values {20, 40, 50, 60, 70, 80} *)
C11_DeleteKeepsBst ==
    [][(DeleteStep /\ Last(log').arg \in InorderValues(root)) =>
          /\ StrictlyIncreasing(Inorder(root'))
          /\ InorderValues(root') = InorderValues(root) \ {Last(log').arg}
          /\ SuccessorInPlace(root, root', Last(log').arg)
          /\ (root = DemoTree /\ Last(log').arg = 30) =>
                /\ Data(Left(root')) = 40
                /\ InorderValues(root') = {20, 40, 50, 60, 70, 80}]_vars

(* C11 witness: 30, a node with two children, was deleted from the demo
   tree *)
C11_DeletedFromDemoTree ==
    /\ family = "binary_search_tree" /\ returned = NULL /\ Len(log) = 8
    /\ Last(log).op = "delete_bst" /\ Last(log).arg = 30
    /\ Data(root) = 50 /\ Data(Left(root)) = 40

(* ------------------------------------------------------------------ *)
(* Properties of the queue steps                                        *)
(* ------------------------------------------------------------------ *)
(* queue.arr[front..rear], empty when the queue is empty *)
Slice(q) ==
    IF q.front = -1 THEN [i \in {} |-> 0]
    ELSE [i \in 0..(q.rear - q.front) |-> q.arr[q.front + i]]

(* the step s shows the queue q *)
Shows(s, q) ==
    /\ s.size = Size(Slice(q))
    /\ s.data = Slice(q)
    /\ s.pointers[0] = q.front
    /\ s.pointers[1] = q.rear

(* this step is one call of op that was not rejected *)
Accepted(op) ==
    /\ Len(log') = Len(log) + 1
    /\ Last(log').op = op
    /\ Last(log').notice = ""

(* C12: the ENQUEUE step of an enqueue shows the slice front..rear of the
   queue as the enqueue leaves it, the DEQUEUE_BEFORE step of a dequeue the
   slice as the dequeue found it, its DEQUEUE_AFTER step the slice as it
   leaves it (no data when the queue is empty), each with front and rear
   in pointers[0] and pointers[1].  After enqueues of 10, 20, 30, one
   dequeue returns 10 and its DEQUEUE_AFTER step has data [20, 30],
   front 1 and rear 2 *)
C12_StepsShowTheSlice ==
    [][/\ Accepted("enqueue") =>
             /\ Len(steps') = Len(steps) + 1
             /\ Last(steps').action = "ENQUEUE"
             /\ Shows(Last(steps'), queue')
       /\ Accepted("dequeue") =>
             /\ Len(steps') = Len(steps) + 2
             /\ steps'[Len(steps) + 1].action = "DEQUEUE_BEFORE"
             /\ Shows(steps'[Len(steps) + 1], queue)
             /\ Last(steps').action = "DEQUEUE_AFTER"
             /\ Shows(Last(steps'), queue')
       /\ (Accepted("dequeue") /\ Slice(queue) = ArrayOf(DemoQueueValues)) =>
             /\ Last(log').ret = 10
             /\ Last(steps').data = ArrayOf(<<20, 30>>)
             /\ Last(steps').pointers[0] = 1
             /\ Last(steps').pointers[1] = 2]_vars

(* C12 witness: one dequeue was made on the demo queue 10, 20, 30 *)
C12_DequeuedFromDemoQueue ==
    /\ family = "queue" /\ returned = NULL /\ Len(log) = 4
    /\ log[1].arg = 10 /\ log[2].arg = 20 /\ log[3].arg = 30
    /\ Last(log).op = "dequeue" /\ Last(log).ret = 10
    /\ Last(steps).action = "DEQUEUE_AFTER"

(* ------------------------------------------------------------------ *)
(* Properties of the output phase and of cleanup_memory                 *)
(* ------------------------------------------------------------------ *)
(* some call of write_config or write_json_output failed *)
WriteFailed ==
    \E k \in 1..Len(log) :
        /\ log[k].op \in {"write_config", "write_json_output"}
        /\ log[k].ret = ERROR_FILE_OPERATION

(* the structures cleanup_memory owns are released and reset *)
Released ==
    /\ root = NULL
    /\ head = NULL
    /\ stack.top = -1
    /\ queue.front = -1 /\ queue.rear = -1
    /\ step_count = 0

(* C13 as stated: a run in which write_config or write_json_output failed
   returns ERROR_FILE_OPERATION, whatever the structure family, with the
   structures released before the return *)
C13_WriteFailureIsReturned ==
    (returned # NULL /\ WriteFailed) =>
        (returned = <<ERROR_FILE_OPERATION>> /\ Released)

(* ------------------------------------------------------------------ *)
(* C14: rejected stack and queue calls                                  *)
(* ------------------------------------------------------------------ *)
(* the call c, made in the current state, is one the program rejects:   *)
(* a pop of an empty stack, a dequeue of an empty queue, or a push or   *)
(* enqueue that reported an overflow                                    *)
Rejected(c) ==
    \/ c.op = "pop" /\ stack.top < 0
    \/ c.op = "dequeue" /\ (queue.front = -1 \/ queue.front > queue.rear)
    \/ c.op = "push" /\ c.notice = "Stack overflow!"
    \/ c.op = "enqueue" /\ c.notice = "Queue overflow!"

(* C14: a rejected call is a no-op: it appends no step and leaves the   *)
(* stack (arr, top) and the queue (arr, front, rear) as they were, and  *)
(* a rejected pop or dequeue returns -1                                 *)
C14_RejectedCallIsNoOp ==
    [][(Len(log') = Len(log) + 1 /\ Rejected(Last(log')))
          => /\ steps' = steps
             /\ stack' = stack
             /\ queue' = queue
             /\ Last(log').op \in {"pop", "dequeue"} => Last(log').ret = -1]_vars

(* C14 witness: a push on a stack that holds MAX_SIZE values was rejected *)
C14_PushOnFullStack ==
    /\ log # <<>>
    /\ Last(log).op = "push" /\ Last(log).notice = "Stack overflow!"
    /\ stack.top = MAX_SIZE - 1

(* ------------------------------------------------------------------ *)
(* C15: when an enqueue is rejected                                     *)
(* ------------------------------------------------------------------ *)
(* the number of values the queue q holds *)
Held(q) == Size(Slice(q))

(* C15: an enqueue on a queue that holds fewer than MAX_SIZE values is  *)
(* not rejected: the queue then holds the values it held, followed by   *)
(* the new one at rear                                                  *)
C15_EnqueueBelowCapacity ==
    [][(/\ Len(log') = Len(log) + 1
        /\ Last(log').op = "enqueue"
        /\ Held(queue) < MAX_SIZE)
          => /\ Last(log').notice = ""
             /\ Held(queue') = Held(queue) + 1
             /\ \A i \in 0..(Held(queue) - 1) : Slice(queue')[i] = Slice(queue)[i]
             /\ queue'.arr[queue'.rear] = Last(log').arg]_vars

(* ------------------------------------------------------------------ *)
(* C16: delete_bst of a value the tree does not hold                    *)
(* ------------------------------------------------------------------ *)
(* C16: a delete_bst of a value that is not in the tree (the empty tree *)
(* included) leaves the tree as it was, and the last step it appends is *)
(* DELETE_BST_NOT_FOUND                                                 *)
C16_AbsentDeleteEndsNotFound ==
    [][(DeleteStep /\ Last(log').arg \notin InorderValues(root))
          => /\ root' = root
             /\ Len(steps') > Len(steps)
             /\ Last(steps').action = "DELETE_BST_NOT_FOUND"]_vars

(* ------------------------------------------------------------------ *)
(* C17: flattening a structure of more than MAX_SIZE nodes              *)
(* ------------------------------------------------------------------ *)
(* the values of the tree t, node first, then left, then right subtree *)
RECURSIVE Preorder(_)
Preorder(t) ==
    IF t = NULL THEN <<>>
    ELSE <<Data(t)>> \o Preorder(Left(t)) \o Preorder(Right(t))

(* the first MAX_SIZE values of the walk w, as a step holds them *)
Walk(w) == [i \in 0..(Min(Len(w), MAX_SIZE) - 1) |-> w[i + 1]]

(* the steps the current call appended *)
Appended == {steps'[k] : k \in (Len(steps) + 1)..Len(steps')}

ListOps == {"insert_at_beginning", "insert_at_end", "insert_sequential",
            "search_linked_list"}

(* C17: no call writes a data or highlight array at index MAX_SIZE or   *)
(* beyond; every snapshot of a list call holds the first MAX_SIZE       *)
(* values of the list, every snapshot of a tree search and the last     *)
(* snapshot of a tree insertion or deletion the first MAX_SIZE values   *)
(* of the tree in pre-order; a search leaves the structure as it was    *)
C17_FlattenStaysInBounds ==
    [][Len(log') = Len(log) + 1
          => /\ overrun' = {}
             /\ \A s \in Appended : s.size <= MAX_SIZE /\ Size(s.highlighted) <= MAX_SIZE
             /\ Last(log').op \in ListOps
                   => \A s \in Appended : s.data = Walk(head')
             /\ Last(log').op = "search_linked_list" => head' = head
             /\ Last(log').op = "search_bst"
                   => root' = root /\ \A s \in Appended : s.data = Walk(Preorder(root))
             /\ (/\ Last(log').op \in {"insert_bst", "delete_bst"}
                 /\ Appended # {}
                 /\ Last(steps').action \in {"INSERT_BST", "DELETE_BST_COMPLETE"})
                   => Last(steps').data = Walk(Preorder(root'))]_vars

(* ------------------------------------------------------------------ *)
(* C18: cleanup_memory                                                  *)
(* ------------------------------------------------------------------ *)
(* what cleanup_memory would leave if it were called in this state *)
Cleaned == cleanup_memory(MAX_STEPS, root, head, stack, queue, steps)

(* C18: called in any reachable state, cleanup_memory ends with root    *)
(* and head NULL, stack.top = -1, queue.front = queue.rear = -1 and     *)
(* step_count = 0 (its loops end within one pass per node), and once    *)
(* main has returned the structures are in that released state          *)
C18_CleanupReleases ==
    /\ Cleaned.root = NULL
    /\ Cleaned.head = NULL
    /\ Cleaned.stack.top = -1
    /\ Cleaned.queue.front = -1 /\ Cleaned.queue.rear = -1
    /\ Len(Cleaned.buf) = 0
    /\ returned # NULL => Released

(* C18 witness: main returned after it had populated the list *)
C18_ReturnedAfterListBuilt ==
    /\ returned # NULL
    /\ family = "linked_list"
    /\ \E k \in 1..Len(log) : log[k].op \in {"insert_at_beginning", "insert_at_end",
                                              "insert_sequential"}
    /\ head = NULL /\ step_count = 0

(* ------------------------------------------------------------------ *)
(* C19: the flags of the config document                                *)
(* ------------------------------------------------------------------ *)
Families == {"stack", "queue", "linked_list", "binary_search_tree", "array"}

(* the flag the config document c holds for the family f *)
Flag(c, f) ==
    CASE f = "stack" -> c.is_stack
      [] f = "queue" -> c.is_queue
      [] f = "linked_list" -> c.is_linked_list
      [] f = "binary_search_tree" -> c.is_binary_search_tree
      [] f = "array" -> c.is_array

(* C19: in the config document written for a run of any of the five     *)
(* families, exactly one of is_stack, is_queue, is_linked_list,         *)
(* is_binary_search_tree and is_array is true, and it is the flag of    *)
(* the structure_type of the same document                              *)
C19_OneFlagOfTheFamily ==
    config # NULL
       => /\ config.structure_type = family
          /\ config.structure_type \in Families
          /\ {f \in Families : Flag(config, f)} = {config.structure_type}

(* C19 witness: the config document of a linked-list run was written *)
C19_ListConfigWritten ==
    /\ config # NULL
    /\ family = "linked_list"
    /\ config.is_linked_list

(* ------------------------------------------------------------------ *)
(* C20: the placement steps of merge                                    *)
(* ------------------------------------------------------------------ *)
Placements == {"MERGE_TAKE_LEFT", "MERGE_TAKE_RIGHT", "MERGE_COPY_LEFT", "MERGE_COPY_RIGHT"}

(* the positions the step s tags as the place of a merged value *)
Placed(s) == {k \in DOMAIN s.highlighted : s.highlighted[k] = 3}

(* C20: every MERGE_TAKE_LEFT, MERGE_TAKE_RIGHT, MERGE_COPY_LEFT and    *)
(* MERGE_COPY_RIGHT step, which places the value x its description      *)
(* names, tags exactly one position k, and its snapshot has             *)
(* data[k] = x                                                          *)
C20_PlacementShowsValue ==
    \A n \in 1..Len(steps) :
        steps[n].action \in Placements
           => /\ Cardinality(Placed(steps[n])) = 1
              /\ \A k \in Placed(steps[n]) : steps[n].data[k] = steps[n].description[2]

(* ------------------------------------------------------------------ *)
(* C21: the steps of an insertion into the tree                         *)
(* ------------------------------------------------------------------ *)
(* the depth of the node of t that holds v, the root being at depth 0 *)
RECURSIVE DepthOf(_, _)
DepthOf(t, v) ==
    IF Data(t) = v THEN 0
    ELSE 1 + DepthOf(IF v < Data(t) THEN Left(t) ELSE Right(t), v)

(* the steps the current call appended, in order *)
NewSteps == SubSeq(steps', Len(steps) + 1, Len(steps'))

(* the step s tags the positions of its data that hold v with tag, and  *)
(* no other position                                                    *)
TagsValue(s, v, tag) ==
    /\ \E i \in DOMAIN s.data : s.data[i] = v
    /\ \A i \in DOMAIN s.highlighted :
          s.highlighted[i] = IF s.data[i] = v THEN tag ELSE 0

(* this step is one call of insert_bst with a value the tree does not hold *)
InsertsNewValue ==
    /\ Len(log') = Len(log) + 1
    /\ Last(log').op = "insert_bst"
    /\ Last(log').arg \notin InorderValues(root)

(* C21: insert_bst of a value the tree does not hold, which lands at    *)
(* depth d, appends d + 1 INSERT_BST steps, each with the pre-order     *)
(* flattening of the whole tree after the insertion as data, tag 1 at   *)
(* the position of the inserted value and 0 elsewhere                   *)
C21_InsertStepsShowWholeTree ==
    [][InsertsNewValue
          => /\ Len(NewSteps) = DepthOf(root', Last(log').arg) + 1
             /\ \A n \in 1..Len(NewSteps) :
                   /\ NewSteps[n].action = "INSERT_BST"
                   /\ NewSteps[n].data = Walk(Preorder(root'))
                   /\ TagsValue(NewSteps[n], Last(log').arg, 1)]_vars

(* ------------------------------------------------------------------ *)
(* C22: the steps of a deletion from the tree                           *)
(* ------------------------------------------------------------------ *)
Untagged(s) == \A i \in DOMAIN s.highlighted : s.highlighted[i] = 0

(* C22: delete_bst of a value the tree holds appends a DELETE_BST_FOUND *)
(* step, and the last step it appends is DELETE_BST_COMPLETE with the   *)
(* pre-order flattening of the resulting tree as data and no tag        *)
C22_DeleteEndsComplete ==
    [][(DeleteStep /\ Last(log').arg \in InorderValues(root))
          => /\ \E n \in 1..Len(NewSteps) : NewSteps[n].action = "DELETE_BST_FOUND"
             /\ Last(NewSteps).action = "DELETE_BST_COMPLETE"
             /\ Last(NewSteps).data = Walk(Preorder(root'))
             /\ Untagged(Last(NewSteps))]_vars

(* ------------------------------------------------------------------ *)
(* C23: the steps of the in-order traversal                             *)
(* ------------------------------------------------------------------ *)
(* the values of S in increasing order, indexed from 0 *)
Ascending(S) ==
    [i \in 0..(Cardinality(S) - 1) |->
        CHOOSE x \in S : Cardinality({y \in S : y < x}) = i]

(* the values the tree t holds *)
TreeHolds(t) == {Preorder(t)[i] : i \in 1..Len(Preorder(t))}

TraverseStep == Len(log') = Len(log) + 1 /\ Last(log').op = "inorder_traversal"

(* C23: the traversal of a tree of n nodes appends n INORDER_TRAVERSAL  *)
(* steps; the i-th has the first i values of the sorted order as data   *)
(* and tag 1 at index i - 1 only, so no step holds a value that is not  *)
(* in the tree                                                          *)
C23_OneStepPerPrefix ==
    [][TraverseStep
          => /\ Len(NewSteps) = Cardinality(TreeHolds(root))
             /\ \A i \in 1..Len(NewSteps) :
                   /\ NewSteps[i].action = "INORDER_TRAVERSAL"
                   /\ NewSteps[i].data = [k \in 0..(i - 1) |-> Ascending(TreeHolds(root))[k]]
                   /\ NewSteps[i].highlighted = [k \in 0..(i - 1) |-> IF k = i - 1 THEN 1 ELSE 0]]_vars

(* ------------------------------------------------------------------ *)
(* C24: the swap steps of partition                                     *)
(* ------------------------------------------------------------------ *)
(* a quick sort has run and no step of it was dropped *)
QuickRun == ArrayRun /\ log[1].op = "quick_sort" /\ step_count < MAX_STEPS

(* the positions the step s tags with t *)
Tagged(s, t) == {i \in DOMAIN s.highlighted : s.highlighted[i] = t}

The(S) == CHOOSE x \in S : TRUE

Compares == {n \in 1..Len(steps) : steps[n].action = "QUICK_COMPARE"}

(* the candidate position j of the QUICK_COMPARE step n, and whether    *)
(* its value is smaller than the pivot                                  *)
Candidate(n) == The(Tagged(steps[n], 1))

Smaller(n) == steps[n].data[Candidate(n)] < steps[n].data[The(Tagged(steps[n], 3))]

(* low of the partition that the step n belongs to: the first position  *)
(* of the last QUICK_SUBARRAY step before n                             *)
LowOf(n) ==
    LET m == CHOOSE m \in 1..n :
                 /\ steps[m].action = "QUICK_SUBARRAY"
                 /\ \A k \in (m + 1)..n : steps[k].action # "QUICK_SUBARRAY"
    IN  Least(Tagged(steps[m], 1))

(* the boundary position i + 1 that a smaller candidate advances to at  *)
(* the QUICK_COMPARE step n                                             *)
Advanced(n) ==
    IF Tagged(steps[n], 2) # {} THEN The(Tagged(steps[n], 2)) + 1 ELSE LowOf(n)

(* the steps after n are QUICK_SWAP_BEFORE and QUICK_SWAP_AFTER, both   *)
(* tagging the advanced boundary and the candidate with 2               *)
SwapsFollow(n) ==
    /\ n + 2 <= Len(steps)
    /\ steps[n + 1].action = "QUICK_SWAP_BEFORE"
    /\ steps[n + 2].action = "QUICK_SWAP_AFTER"
    /\ Tagged(steps[n + 1], 2) = {Advanced(n), Candidate(n)}
    /\ Tagged(steps[n + 2], 2) = {Advanced(n), Candidate(n)}

NoSwapFollows(n) ==
    /\ n + 1 <= Len(steps)
    /\ steps[n + 1].action \notin {"QUICK_SWAP_BEFORE", "QUICK_SWAP_AFTER"}

(* C24 as stated: every candidate smaller than the pivot is followed,   *)
(* before the next QUICK_COMPARE, by a QUICK_SWAP_BEFORE and a          *)
(* QUICK_SWAP_AFTER step that tag the advanced boundary and j with 2;   *)
(* the other candidates produce no swap step                            *)
C24_SmallerIsSwapped ==
    QuickRun =>
        \A n \in Compares : IF Smaller(n) THEN SwapsFollow(n) ELSE NoSwapFollows(n)

(* C24 amended: a candidate smaller than the pivot is followed by the   *)
(* two swap steps exactly when the advanced boundary is not j itself;   *)
(* a smaller candidate that is already at the boundary, and every       *)
(* candidate not smaller than the pivot, produce no swap step           *)
C24_SmallerIsSwappedUnlessInPlace ==
    QuickRun =>
        \A n \in Compares :
            IF Smaller(n) /\ Advanced(n) # Candidate(n)
            THEN SwapsFollow(n) ELSE NoSwapFollows(n)

(* C24 witness: a quick sort met a candidate smaller than the pivot     *)
(* beyond the boundary and recorded its swap                            *)
C24_SmallerCandidateSwapped ==
    /\ QuickRun
    /\ \E n \in Compares : Smaller(n) /\ Advanced(n) # Candidate(n) /\ SwapsFollow(n)

(* ------------------------------------------------------------------ *)
(* C25: the QUICK_PIVOT_FINAL steps                                     *)
(* ------------------------------------------------------------------ *)
PivotFinals == {n \in 1..Len(steps) : steps[n].action = "QUICK_PIVOT_FINAL"}

(* the range low..high of the quick_sort call that the step n belongs   *)
(* to: the positions its QUICK_SUBARRAY step, the last one before n,    *)
(* tags                                                                 *)
RangeOf(n) ==
    LET m == CHOOSE m \in 1..n :
                 /\ steps[m].action = "QUICK_SUBARRAY"
                 /\ \A k \in (m + 1)..n : steps[k].action # "QUICK_SUBARRAY"
    IN  Tagged(steps[m], 1)

(* v is the value that position p holds once the array a is sorted *)
SortedAt(a, p, v) ==
    /\ Cardinality({k \in DOMAIN a : a[k] < v}) <= p
    /\ p < Cardinality({k \in DOMAIN a : a[k] <= v})

(* C25: in every QUICK_PIVOT_FINAL step, of range low..high and tagged  *)
(* index pi, the values at low..pi-1 are smaller than data[pi], the     *)
(* values at pi+1..high are greater than or equal to it, and data[pi]   *)
(* is the value that index pi holds in the sorted array                 *)
C25_PivotIsFinal ==
    (ArrayRun /\ log[1].op = "quick_sort") =>
        \A n \in PivotFinals :
            /\ Cardinality(Tagged(steps[n], 3)) = 1
            /\ \A pi \in Tagged(steps[n], 3) :
                  /\ pi \in RangeOf(n)
                  /\ \A k \in RangeOf(n) :
                        /\ k < pi => steps[n].data[k] < steps[n].data[pi]
                        /\ k > pi => steps[n].data[k] >= steps[n].data[pi]
                  /\ SortedAt(Input, pi, steps[n].data[pi])

(* C25 witness: a pivot came to rest strictly inside its range, with a  *)
(* value equal to it on its right                                       *)
C25_PivotInsideRange ==
    /\ ArrayRun /\ log[1].op = "quick_sort"
    /\ \E n \in PivotFinals : \E pi \in Tagged(steps[n], 3) :
          /\ \E k \in RangeOf(n) : k < pi
          /\ \E k \in RangeOf(n) : k > pi /\ steps[n].data[k] = steps[n].data[pi]

(* ------------------------------------------------------------------ *)
(* C26, C27: the steps of pop and push                                  *)
(* ------------------------------------------------------------------ *)
(* arr[0..top] of the stack t *)
Contents(t) == [i \in 0..t.top |-> t.arr[i]]

(* n entries, all 0 but for tag at position p *)
OnlyTag(n, p, tag) == [i \in 0..(n - 1) |-> IF i = p THEN tag ELSE 0]

(* C26: a pop of a non-empty stack appends two steps: POP_BEFORE, with  *)
(* the stack as the pop found it, the value returned on top, tag 1 at   *)
(* the old top only and pointers[0] the old top; then POP_AFTER, with   *)
(* the stack one value shorter, no tag and pointers[0] the new top      *)
C26_PopBeforeAndAfter ==
    [][(Accepted("pop") /\ stack.top >= 0)
          => /\ Len(NewSteps) = 2
             /\ NewSteps[1].action = "POP_BEFORE"
             /\ NewSteps[1].data = Contents(stack)
             /\ NewSteps[1].data[stack.top] = Last(log').ret
             /\ NewSteps[1].highlighted = OnlyTag(stack.top + 1, stack.top, 1)
             /\ NewSteps[1].pointers[0] = stack.top
             /\ NewSteps[2].action = "POP_AFTER"
             /\ NewSteps[2].data = Contents(stack')
             /\ stack'.top = stack.top - 1
             /\ \A i \in 0..stack'.top : stack'.arr[i] = stack.arr[i]
             /\ Untagged(NewSteps[2])
             /\ Size(NewSteps[2].highlighted) = stack.top
             /\ NewSteps[2].pointers[0] = stack.top - 1]_vars

(* C26 witness: a pop took the only value of the stack *)
C26_PoppedTheLastValue ==
    /\ family = "stack" /\ returned = NULL /\ log # <<>>
    /\ Last(log).op = "pop" /\ Last(log).notice = ""
    /\ stack.top = -1
    /\ Len(steps) >= 2
    /\ Last(steps).action = "POP_AFTER" /\ Last(steps).pointers[0] = -1

(* C27: an accepted push appends one PUSH step, with the stack          *)
(* arr[0..top] after the push as data, the "result" tag 2 at the new    *)
(* top and 0 elsewhere, pointers[0] the new top and pointers[1..9] -1   *)
C27_PushTagsResult ==
    [][Accepted("push")
          => /\ Len(NewSteps) = 1
             /\ NewSteps[1].action = "PUSH"
             /\ stack'.top = stack.top + 1
             /\ stack'.arr[stack'.top] = Last(log').arg
             /\ NewSteps[1].data = Contents(stack')
             /\ NewSteps[1].highlighted = OnlyTag(stack'.top + 1, stack'.top, 2)
             /\ NewSteps[1].pointers[0] = stack'.top
             /\ \A i \in 1..(NPOINTERS - 1) : NewSteps[1].pointers[i] = -1]_vars

(* ------------------------------------------------------------------ *)
(* C28: the steps of the list insertions                                *)
(* ------------------------------------------------------------------ *)
ListInsert(op) == Len(log') = Len(log) + 1 /\ Last(log').op = op

(* the current call appended one step, with the whole list it leaves as *)
(* data and tag at position p only                                      *)
ShowsList(p, tag) ==
    /\ Len(NewSteps) = 1
    /\ NewSteps[1].data = [i \in 0..(Len(head') - 1) |-> head'[i + 1]]
    /\ NewSteps[1].highlighted = OnlyTag(Len(head'), p, tag)

(* C28: each list insertion appends one step with the whole list after  *)
(* the insertion as data, the new value first for insert_at_beginning   *)
(* and last for insert_at_end and insert_sequential; the first tags     *)
(* index 0 with 1, the other two tag the last index with the "result"   *)
(* tag 2, and every other highlight is 0                                *)
C28_InsertTagsNewNode ==
    [][/\ ListInsert("insert_at_beginning")
             => /\ head' = <<Last(log').arg>> \o head
                /\ ShowsList(0, 1)
       /\ (ListInsert("insert_at_end") \/ ListInsert("insert_sequential"))
             => /\ head' = head \o <<Last(log').arg>>
                /\ ShowsList(Len(head') - 1, 2)]_vars

(* ------------------------------------------------------------------ *)
(* C29: the steps of search_bst                                         *)
(* ------------------------------------------------------------------ *)
(* the values of the nodes met on the descent from the root of t        *)
(* towards v                                                            *)
RECURSIVE Path(_, _)
Path(t, v) ==
    IF t = NULL THEN <<>>
    ELSE IF Data(t) = v THEN <<v>>
    ELSE <<Data(t)>> \o Path(IF v < Data(t) THEN Left(t) ELSE Right(t), v)

(* the node of t that holds v, NULL if there is none *)
RECURSIVE NodeOf(_, _)
NodeOf(t, v) ==
    IF t = NULL THEN NULL
    ELSE IF Data(t) = v THEN t
    ELSE NodeOf(IF v < Data(t) THEN Left(t) ELSE Right(t), v)

SearchStep == Len(log') = Len(log) + 1 /\ Last(log').op = "search_bst"

(* C29: search_bst appends one SEARCH_BST step per node of the descent  *)
(* path, each with the pre-order flattening of the whole tree as data   *)
(* and tag 1 at the node visited; when the value is in the tree it then *)
(* appends SEARCH_BST_FOUND with tag 2 at the value and returns its     *)
(* node, otherwise SEARCH_BST_NOT_FOUND and returns NULL; the tree is   *)
(* unchanged                                                            *)
C29_SearchFollowsThePath ==
    [][SearchStep
          => /\ root' = root
             /\ Len(NewSteps) = Len(Path(root, Last(log').arg)) + 1
             /\ \A i \in 1..Len(Path(root, Last(log').arg)) :
                   /\ NewSteps[i].action = "SEARCH_BST"
                   /\ NewSteps[i].data = Walk(Preorder(root))
                   /\ TagsValue(NewSteps[i], Path(root, Last(log').arg)[i], 1)
             /\ IF Last(log').arg \in TreeHolds(root)
                THEN /\ Last(NewSteps).action = "SEARCH_BST_FOUND"
                     /\ Last(NewSteps).data = Walk(Preorder(root))
                     /\ TagsValue(Last(NewSteps), Last(log').arg, 2)
                     /\ Last(log').ret # NULL
                     /\ Last(log').ret = NodeOf(root, Last(log').arg)
                ELSE /\ Last(NewSteps).action = "SEARCH_BST_NOT_FOUND"
                     /\ Last(log').ret = NULL]_vars

(* C29 witness: a search found its value below the root *)
C29_FoundBelowTheRoot ==
    /\ family = "binary_search_tree" /\ returned = NULL /\ log # <<>>
    /\ Last(log).op = "search_bst"
    /\ Last(log).ret # NULL
    /\ Last(log).ret # root
    /\ Last(steps).action = "SEARCH_BST_FOUND"

(* ------------------------------------------------------------------ *)
(* C30: the steps of binary_search                                      *)
(* ------------------------------------------------------------------ *)
Probes == {n \in 1..Len(steps) : steps[n].action = "BINARY_SEARCH"}

(* C30: in every BINARY_SEARCH step on an array of n values,            *)
(* pointers[0..2] are left, right and mid with                          *)
(* 0 <= left <= mid <= right <= n - 1, and mid alone is tagged, with 1; *)
(* when the sorted array does not hold the target the last step is      *)
(* BINARY_SEARCH_NOT_FOUND with no tag and all ten pointers -1, and     *)
(* there is no BINARY_SEARCH_FOUND step                                 *)
C30_ProbesStayInRange ==
    BinaryRun =>
        /\ \A n \in Probes :
              /\ 0 <= steps[n].pointers[0]
              /\ steps[n].pointers[0] <= steps[n].pointers[2]
              /\ steps[n].pointers[2] <= steps[n].pointers[1]
              /\ steps[n].pointers[1] <= Size(arr) - 1
              /\ steps[n].highlighted = OnlyTag(Size(arr), steps[n].pointers[2], 1)
        /\ Holders = {}
              => /\ Last(steps).action = "BINARY_SEARCH_NOT_FOUND"
                 /\ Untagged(Last(steps))
                 /\ \A i \in 0..(NPOINTERS - 1) : Last(steps).pointers[i] = -1
                 /\ \A n \in 1..Len(steps) : steps[n].action # "BINARY_SEARCH_FOUND"

(* C30 witness: a search for a value the array does not hold probed     *)
(* twice and ended not found                                            *)
C30_AbsentAfterTwoProbes ==
    /\ BinaryRun /\ Holders = {}
    /\ Cardinality(Probes) >= 2
    /\ Last(steps).action = "BINARY_SEARCH_NOT_FOUND"

(* ------------------------------------------------------------------ *)
(* C31: the steps of linear_search                                      *)
(* ------------------------------------------------------------------ *)
(* the call of the array operation has just returned: main has not yet  *)
(* written a document, and writing changes neither arr nor the steps    *)
ArrayCalled == ArrayRun /\ config = NULL /\ doc = NULL

LinearRun == ArrayCalled /\ log[1].op = "linear_search"

(* the index at which the scan stops: the first occurrence of the       *)
(* target, or the size of the array when the target is absent           *)
FirstAt(a, v) ==
    IF \E i \in DOMAIN a : a[i] = v
    THEN CHOOSE i \in DOMAIN a : a[i] = v /\ \A j \in 0..(i - 1) : a[j] # v
    ELSE Size(a)

(* C31: with the first occurrence of the target at index k,             *)
(* linear_search appends exactly k + 1 LINEAR_SEARCH steps, for the      *)
(* indices 0..k in order, each tagging the examined index with 1, then   *)
(* one LINEAR_SEARCH_FOUND step tagging k with 2; when the target is     *)
(* absent it appends n LINEAR_SEARCH steps, then one                     *)
(* LINEAR_SEARCH_NOT_FOUND step with no tag; the array is not modified   *)
C31_ScanStopsAtFirstMatch ==
    LinearRun =>
        LET n == Size(Input)
            k == FirstAt(Input, log[1].arg.target)
            scanned == IF k < n THEN k + 1 ELSE n
        IN /\ arr = Input
           /\ Len(steps) = scanned + 1
           /\ \A m \in 1..Len(steps) : steps[m].data = Input /\ steps[m].size = n
           /\ \A m \in 1..scanned :
                 /\ steps[m].action = "LINEAR_SEARCH"
                 /\ steps[m].highlighted = OnlyTag(n, m - 1, 1)
           /\ IF k < n
              THEN /\ Last(steps).action = "LINEAR_SEARCH_FOUND"
                   /\ Last(steps).highlighted = OnlyTag(n, k, 2)
              ELSE /\ Last(steps).action = "LINEAR_SEARCH_NOT_FOUND"
                   /\ Untagged(Last(steps))

(* C31 witness: the target was found at its first occurrence, before a  *)
(* second occurrence and after a value that differs from it             *)
C31_FoundBeforeSecondOccurrence ==
    /\ LinearRun
    /\ Last(steps).action = "LINEAR_SEARCH_FOUND"
    /\ Len(steps) = 3
    /\ Cardinality({i \in DOMAIN Input : Input[i] = log[1].arg.target}) = 2

(* ------------------------------------------------------------------ *)
(* C32: the cursors of the queue                                        *)
(* ------------------------------------------------------------------ *)
CursorsInRange(q) ==
    IF q.front = -1 \/ q.rear = -1
    THEN q.front = -1 /\ q.rear = -1
    ELSE 0 <= q.front /\ q.front <= q.rear /\ q.rear <= MAX_SIZE - 1

(* C32: after any sequence of enqueue and dequeue calls front is -1     *)
(* exactly when rear is -1, and otherwise                               *)
(* 0 <= front <= rear <= MAX_SIZE - 1; a dequeue that removes the last  *)
(* value of the queue sets both cursors to -1                           *)
C32_CursorsStayInRange ==
    /\ []CursorsInRange(queue)
    /\ [][(Accepted("dequeue") /\ queue.front = queue.rear)
             => (queue'.front = -1 /\ queue'.rear = -1)]_vars

(* C32 witness: a dequeue removed the only value of the queue *)
C32_LastValueDequeued ==
    /\ Len(log) >= 2
    /\ log[Len(log) - 1].op = "enqueue" /\ log[Len(log) - 1].notice = ""
    /\ Last(log).op = "dequeue" /\ Last(log).notice = ""
    /\ queue.front = -1 /\ queue.rear = -1

(* ------------------------------------------------------------------ *)
(* C33: the depth of the recursions.  The depth of a call is the       *)
(* largest number of its own activations that are on the call stack at *)
(* one time.                                                           *)
(* ------------------------------------------------------------------ *)
Deeper(a, b) == IF a > b THEN a ELSE b

(* a quick_sort that also partitions a range of one element *)
RECURSIVE quick_sort_depth_le(_, _, _)
quick_sort_depth_le(a, low, high) ==
    IF low <= high
    THEN 1 + Deeper(
             quick_sort_depth_le(partition(0, a, low, high, Size(a), <<>>).arr, low,
                                 partition(0, a, low, high, Size(a), <<>>).pi - 1),
             quick_sort_depth_le(partition(0, a, low, high, Size(a), <<>>).arr,
                                 partition(0, a, low, high, Size(a), <<>>).pi + 1, high))
    ELSE 1

(* quick_sort(arr, low, high, original_size) on the array a: the call   *)
(* itself, and below it its two recursive calls, one after the other.   *)
(* The first call writes to a[low..pi-1] only, so the second call finds *)
(* a[pi+1..high] as partition left it.                                  *)
RECURSIVE quick_sort_depth(_, _, _)
quick_sort_depth(a, low, high) ==
    IF low < high
    THEN 1 + Deeper(
             quick_sort_depth(partition(0, a, low, high, Size(a), <<>>).arr, low,
                              partition(0, a, low, high, Size(a), <<>>).pi - 1),
             quick_sort_depth(partition(0, a, low, high, Size(a), <<>>).arr,
                              partition(0, a, low, high, Size(a), <<>>).pi + 1, high))
    ELSE 1

(* merge_sort(arr, left, right, original_arr, original_size) *)
RECURSIVE merge_sort_depth(_, _)
merge_sort_depth(left, right) ==
    IF left < right
    THEN 1 + Deeper(merge_sort_depth(left, left + ((right - left) \div 2)),
                    merge_sort_depth(left + ((right - left) \div 2) + 1, right))
    ELSE 1

(* insert_bst(root, data) *)
RECURSIVE insert_bst_depth(_, _)
insert_bst_depth(root_, data) ==
    IF root_ = NULL THEN 1
    ELSE IF data < Data(root_) THEN 1 + insert_bst_depth(Left(root_), data)
    ELSE IF data > Data(root_) THEN 1 + insert_bst_depth(Right(root_), data)
    ELSE 1

(* delete_bst(root, data) *)
RECURSIVE delete_bst_depth(_, _)
delete_bst_depth(root_, data) ==
    IF root_ = NULL THEN 1
    ELSE IF data < Data(root_) THEN 1 + delete_bst_depth(Left(root_), data)
    ELSE IF data > Data(root_) THEN 1 + delete_bst_depth(Right(root_), data)
    ELSE IF Left(root_) = NULL \/ Right(root_) = NULL THEN 1
    ELSE 1 + delete_bst_depth(Right(root_), leftmost(Right(root_)))

(* the values asked of a tree: those it holds, those an insertion may   *)
(* bring, one below and one above them all                              *)
Asked(t) == BstTargets(t) \cup BstValues \cup {Unbounded}

(* C33: on an array of n values, whatever their order, the recursion of *)
(* quick_sort and that of merge_sort are never deeper than n; on a tree *)
(* the recursion of insert_bst and that of delete_bst are never deeper  *)
(* than the number of nodes of the tree plus one                        *)
C33_RecursionIsBounded ==
    /\ (ArrayCalled /\ log[1].op = "quick_sort")
          => quick_sort_depth(Input, 0, Size(Input) - 1) <= Size(Input)
    /\ (ArrayCalled /\ log[1].op = "merge_sort")
          => merge_sort_depth(0, Size(Input) - 1) <= Size(Input)
    /\ family = "binary_search_tree"
          => \A v \in Asked(root) :
                /\ insert_bst_depth(root, v) <= nodes(root) + 1
                /\ delete_bst_depth(root, v) <= nodes(root) + 1

(* C33 witness: quick_sort ran on three values in ascending order, and  *)
(* its recursion was three calls deep                                   *)
C33_SortedInputIsDeepest ==
    /\ ArrayRun /\ log[1].op = "quick_sort"
    /\ Size(Input) = 3
    /\ Input[0] < Input[1] /\ Input[1] < Input[2]
    /\ quick_sort_depth(Input, 0, 2) = 3

(* ------------------------------------------------------------------ *)
(* C34: the tags of the SELECTION_COMPARE steps                         *)
(* ------------------------------------------------------------------ *)
SelectionRun == ArrayCalled /\ log[1].op = "selection_sort"

SelectionCompares == {n \in 1..Len(steps) : steps[n].action = "SELECTION_COMPARE"}

(* the pass of the step n: the position its SELECTION_START step tags *)
PassOf(n) ==
    The(Tagged(steps[CHOOSE k \in 1..n :
                        /\ steps[k].action = "SELECTION_START"
                        /\ \A l \in (k + 1)..n : steps[l].action # "SELECTION_START"], 1))

(* the running minimum of the pass i before the candidate j is compared: *)
(* the first least value of i..j-1                                       *)
RunningMin(a, i, j) ==
    CHOOSE m \in i..(j - 1) :
        /\ \A k \in i..(j - 1) : a[m] <= a[k]
        /\ \A k \in i..(m - 1) : a[m] < a[k]

TagsOf(n, i, m, j) ==
    /\ steps[n].highlighted[i] = 1
    /\ steps[n].highlighted[m] = 2
    /\ steps[n].highlighted[j] = 3

(* C34: in every SELECTION_COMPARE step of pass i with running minimum  *)
(* m and candidate j, position i is tagged 1, position m is tagged 2    *)
(* and position j is tagged 3, also while the running minimum is the    *)
(* pass position itself                                                 *)
C34_ThreeTags ==
    SelectionRun =>
        \A n \in SelectionCompares :
            TagsOf(n, PassOf(n),
                   RunningMin(steps[n].data, PassOf(n), steps[n].description[2]),
                   steps[n].description[2])

(* C34, as the code has it: position m is tagged 2 and position j is    *)
(* tagged 3; position i is tagged 1 unless it is the running minimum,   *)
(* and it is then tagged 2; no other position is tagged                 *)
C34_MinimumTagWins ==
    SelectionRun =>
        \A n \in SelectionCompares :
            LET i == PassOf(n)
                j == steps[n].description[2]
                m == RunningMin(steps[n].data, i, j)
            IN steps[n].highlighted =
                  [k \in 0..(Size(Input) - 1) |->
                      IF k = j THEN 3 ELSE IF k = m THEN 2 ELSE IF k = i THEN 1 ELSE 0]

(* C34 witness: one comparison was recorded with the running minimum at *)
(* the pass position, and one with the running minimum away from it,    *)
(* the three tags on three positions                                    *)
C34_MinimumAtAndAwayFromPass ==
    /\ SelectionRun
    /\ \E n \in SelectionCompares : Tagged(steps[n], 1) = {}
    /\ \E n \in SelectionCompares :
          /\ Tagged(steps[n], 1) # {}
          /\ Tagged(steps[n], 2) # {}
          /\ Tagged(steps[n], 3) # {}

(* ------------------------------------------------------------------ *)
(* C35: the trace is written before cleanup_memory runs                 *)
(* ------------------------------------------------------------------ *)
DeleteActions == {"DELETE_BST_SEARCH", "DELETE_BST_FOUND", "DELETE_BST_COMPLETE",
                  "DELETE_BST_NOT_FOUND"}

(* the document holds a DELETE_BST step only if main called delete_bst *)
OnlyOperationSteps ==
    doc # NULL =>
        \A i \in 1..Len(doc.steps) :
            doc.steps[i].action \in DeleteActions
                => \E k \in 1..Len(log) : log[k].op = "delete_bst"

(* C35: the trace document holds only the steps of the selected         *)
(* operation and of its seeding: it is written while main has not run   *)
(* cleanup_memory, from the buffer as the operation left it, so the     *)
(* DELETE_BST steps by which cleanup_memory tears the tree down are not *)
(* in it; and step_count is 0 once cleanup_memory has run               *)
C35_TraceWrittenBeforeCleanup ==
    /\ [](OnlyOperationSteps /\ (returned # NULL => step_count = 0))
    /\ [][doc' # doc =>
             /\ returned = NULL /\ returned' = NULL
             /\ steps' = steps
             /\ Len(doc'.steps) = Len(steps)
             /\ \A i \in 1..Len(steps) : doc'.steps[i].action = steps[i].action]_vars

(* C35 witness: the trace of insertions into the tree was written, then *)
(* main returned through cleanup_memory, which emptied the tree         *)
C35_TreeTornDownAfterWriting ==
    /\ family = "binary_search_tree"
    /\ doc # NULL /\ Len(doc.steps) > 0
    /\ \A k \in 1..Len(log) : log[k].op # "delete_bst"
    /\ returned = <<SUCCESS>>
    /\ root = NULL /\ step_count = 0

(* ------------------------------------------------------------------ *)
(* C36: the sorts that change the array by swaps only                   *)
(* ------------------------------------------------------------------ *)
SwapSorts == {"bubble_sort", "selection_sort", "quick_sort"}

SwapSortRun == ArrayCalled /\ log[1].op \in SwapSorts

(* C36: every step that bubble sort, selection sort or quick sort       *)
(* records, not only the last, has as data a permutation of the input   *)
(* array                                                                *)
C36_EveryStepIsAPermutation ==
    SwapSortRun =>
        \A m \in 1..Len(steps) :
            /\ steps[m].size = Size(Input)
            /\ Permutation(steps[m].data, Input, Size(Input))

(* C36 witness: a swap sort recorded a step whose data is neither the   *)
(* input nor the array it ended with                                    *)
C36_StepBetweenInputAndResult ==
    /\ SwapSortRun
    /\ \E m \in 1..Len(steps) : steps[m].data # Input /\ steps[m].data # arr

(* ------------------------------------------------------------------ *)
(* C37: the MERGE_COMPLETE_SUB steps                                    *)
(* ------------------------------------------------------------------ *)
MergeRun == ArrayCalled /\ log[1].op = "merge_sort"

(* the calls of merge that merge_sort(a, left, right, o) makes, in      *)
(* order, each with its range and with the working copy and the         *)
(* visualized array as it leaves them                                   *)
RECURSIVE Merges(_, _, _, _)
Merges(a, o, left, right) ==
    IF left < right
    THEN LET mid == left + ((right - left) \div 2)
             l == merge_sort(0, a, left, mid, o, Size(o), <<>>)
             r == merge_sort(0, l.arr, mid + 1, right, l.orig, Size(o), <<>>)
             m == merge(0, r.arr, left, mid, right, r.orig, Size(o), <<>>)
         IN  Merges(a, o, left, mid) \o Merges(l.arr, l.orig, mid + 1, right)
                \o <<[left |-> left, right |-> right, arr |-> m.arr, orig |-> m.orig]>>
    ELSE <<>>

(* the MERGE_COMPLETE_SUB steps of the trace, in order *)
CompleteSubs ==
    SelectSeq(steps, LAMBDA s : s.action = "MERGE_COMPLETE_SUB")

(* C37: at every MERGE_COMPLETE_SUB step, recorded for a range          *)
(* [left, right], data[left..right] is non-decreasing, the whole data   *)
(* is a permutation of the input array, and the working copy and the    *)
(* visualized array hold the same values on [left, right]               *)
C37_MergedRangeIsSorted ==
    MergeRun =>
        LET ms == Merges(Input, Input, 0, Size(Input) - 1)
        IN  /\ Len(CompleteSubs) <= Len(ms)
            /\ \A k \in 1..Len(CompleteSubs) :
                  /\ CompleteSubs[k].description[2] = ms[k].left
                  /\ CompleteSubs[k].description[3] = ms[k].right
                  /\ CompleteSubs[k].data = ms[k].orig
                  /\ \A i \in ms[k].left..(ms[k].right - 1) :
                        CompleteSubs[k].data[i] <= CompleteSubs[k].data[i + 1]
                  /\ Permutation(CompleteSubs[k].data, Input, Size(Input))
                  /\ \A i \in ms[k].left..ms[k].right : ms[k].arr[i] = ms[k].orig[i]

(* C37 witness: a merge of a range that is not the whole array changed  *)
(* the order of its values                                              *)
C37_InnerMergeReordered ==
    /\ MergeRun
    /\ \E k \in 1..Len(CompleteSubs) :
          /\ CompleteSubs[k].description[3] - CompleteSubs[k].description[2] + 1
                < Size(Input)
          /\ CompleteSubs[k].data # Input

(* ------------------------------------------------------------------ *)
(* C38: malloc and free.  The heap is [cell, freed, twice]: cell[p] is  *)
(* the node at the address p (0 is the null pointer), freed the         *)
(* addresses passed to free, twice those passed to free again.          *)
(* ------------------------------------------------------------------ *)
(* the nodes of the tree t at the addresses base, base + 1, ..., the    *)
(* root first, then its left subtree, then its right subtree            *)
RECURSIVE TreeCells(_, _)
TreeCells(t, base) ==
    IF t = NULL THEN <<>>
    ELSE <<[data  |-> Data(t),
            left  |-> IF Left(t) = NULL THEN 0 ELSE base + 1,
            right |-> IF Right(t) = NULL THEN 0 ELSE base + 1 + nodes(Left(t))]>>
         \o TreeCells(Left(t), base + 1)
         \o TreeCells(Right(t), base + 1 + nodes(Left(t)))

TreeHeap(t) == [cell |-> TreeCells(t, 1), freed |-> {}, twice |-> {}]

RootOf(t) == IF t = NULL THEN 0 ELSE 1

(* the list h at the addresses 1, 2, ..., head first *)
ListHeap(h) ==
    [cell  |-> [p \in 1..Len(h) |->
                  [data |-> h[p], next |-> IF p = Len(h) THEN 0 ELSE p + 1]],
     freed |-> {}, twice |-> {}]

(* free(p) *)
free(h, p) ==
    [cell  |-> h.cell,
     freed |-> h.freed \cup {p},
     twice |-> IF p \in h.freed THEN h.twice \cup {p} ELSE h.twice]

(* temp = root->right; while (temp->left != NULL) temp = temp->left *)
RECURSIVE heap_leftmost(_, _)
heap_leftmost(h, p) ==
    IF h.cell[p].left = 0 THEN p ELSE heap_leftmost(h, h.cell[p].left)

(* a delete_bst that frees the successor where it finds it, before the  *)
(* recursive call that deletes it                                       *)
RECURSIVE heap_delete_bst_eager(_, _, _)
heap_delete_bst_eager(h, root_, data) ==
    IF root_ = 0 THEN [heap |-> h, root |-> 0]
    ELSE IF data < h.cell[root_].data
    THEN LET r == heap_delete_bst_eager(h, h.cell[root_].left, data)
         IN  [heap |-> [r.heap EXCEPT !.cell[root_].left = r.root], root |-> root_]
    ELSE IF data > h.cell[root_].data
    THEN LET r == heap_delete_bst_eager(h, h.cell[root_].right, data)
         IN  [heap |-> [r.heap EXCEPT !.cell[root_].right = r.root], root |-> root_]
    ELSE IF h.cell[root_].left = 0
    THEN [heap |-> free(h, root_), root |-> h.cell[root_].right]
    ELSE IF h.cell[root_].right = 0
    THEN [heap |-> free(h, root_), root |-> h.cell[root_].left]
    ELSE LET temp == heap_leftmost(h, h.cell[root_].right)
             r == heap_delete_bst_eager(
                      free([h EXCEPT !.cell[root_].data = h.cell[temp].data], temp),
                      h.cell[root_].right, h.cell[temp].data)
         IN  [heap |-> [r.heap EXCEPT !.cell[root_].right = r.root], root |-> root_]

(* delete_bst(root, data) on the heap: the result is [heap, root], root *)
(* being the pointer returned                                           *)
RECURSIVE heap_delete_bst(_, _, _)
heap_delete_bst(h, root_, data) ==
    IF root_ = 0 THEN [heap |-> h, root |-> 0]
    ELSE IF data < h.cell[root_].data
    THEN LET r == heap_delete_bst(h, h.cell[root_].left, data)
         IN  [heap |-> [r.heap EXCEPT !.cell[root_].left = r.root], root |-> root_]
    ELSE IF data > h.cell[root_].data
    THEN LET r == heap_delete_bst(h, h.cell[root_].right, data)
         IN  [heap |-> [r.heap EXCEPT !.cell[root_].right = r.root], root |-> root_]
    ELSE IF h.cell[root_].left = 0
    THEN [heap |-> free(h, root_), root |-> h.cell[root_].right]
    ELSE IF h.cell[root_].right = 0
    THEN [heap |-> free(h, root_), root |-> h.cell[root_].left]
    ELSE LET temp == heap_leftmost(h, h.cell[root_].right)
             r == heap_delete_bst([h EXCEPT !.cell[root_].data = h.cell[temp].data],
                                  h.cell[root_].right, h.cell[temp].data)
         IN  [heap |-> [r.heap EXCEPT !.cell[root_].right = r.root], root |-> root_]

(* while (root != NULL) root = delete_bst(root, root->data) *)
RECURSIVE heap_cleanup_tree(_, _)
heap_cleanup_tree(h, root_) ==
    IF root_ = 0 THEN [heap |-> h, root |-> 0]
    ELSE heap_cleanup_tree(heap_delete_bst(h, root_, h.cell[root_].data).heap,
                           heap_delete_bst(h, root_, h.cell[root_].data).root)

(* while (head != NULL) { temp = head; head = head->next; free(temp); } *)
RECURSIVE heap_cleanup_list(_, _)
heap_cleanup_list(h, head_) ==
    IF head_ = 0 THEN [heap |-> h, head |-> 0]
    ELSE heap_cleanup_list(free(h, head_), h.cell[head_].next)

(* the addresses reachable from the tree pointer p *)
RECURSIVE Reachable(_, _)
Reachable(h, p) ==
    IF p = 0 THEN {}
    ELSE {p} \cup Reachable(h, h.cell[p].left) \cup Reachable(h, h.cell[p].right)

(* the tree at the pointer p *)
RECURSIVE TreeAt(_, _)
TreeAt(h, p) ==
    IF p = 0 THEN NULL
    ELSE Node(h.cell[p].data, TreeAt(h, h.cell[p].left), TreeAt(h, h.cell[p].right))

(* C38: no node is freed twice and no freed node can be reached from    *)
(* root or head when an operation has returned: a delete_bst that finds *)
(* its value frees exactly one node (and one that does not frees none), *)
(* leaving the tree the operation returns; cleanup_memory frees every   *)
(* node of the tree and of the list, each once (the empty tree is asked *)
(* once, before the run has chosen its structure)                       *)
C38_EveryNodeFreedOnce ==
    /\ \A v \in IF root = NULL /\ family # "none" THEN {} ELSE Asked(root) :
          LET r == heap_delete_bst(TreeHeap(root), RootOf(root), v)
          IN  /\ r.heap.twice = {}
              /\ Reachable(r.heap, r.root) \cap r.heap.freed = {}
              /\ Cardinality(r.heap.freed) = IF v \in TreeValues(root) THEN 1 ELSE 0
              /\ Cardinality(Reachable(r.heap, r.root)) + Cardinality(r.heap.freed)
                    = nodes(root)
              /\ TreeAt(r.heap, r.root) = delete_bst(0, root, v, <<>>).root
    /\ LET c == heap_cleanup_tree(TreeHeap(root), RootOf(root))
       IN  /\ c.root = 0
           /\ c.heap.twice = {}
           /\ c.heap.freed = 1..nodes(root)
    /\ LET c == heap_cleanup_list(ListHeap(head), IF head = <<>> THEN 0 ELSE 1)
       IN  /\ c.head = 0
           /\ c.heap.twice = {}
           /\ c.heap.freed = 1..Len(head)
    /\ returned # NULL => (root = NULL /\ head = NULL)

(* C38 witness: the tree holds a node with two children, whose deletion *)
(* frees the node of its successor                                      *)
C38_SuccessorNodeFreed ==
    /\ family = "binary_search_tree" /\ root # NULL
    /\ Left(root) # NULL /\ Right(root) # NULL /\ Left(Right(root)) # NULL
    /\ heap_delete_bst(TreeHeap(root), 1, Data(root)).heap.freed
          = {heap_leftmost(TreeHeap(root), TreeHeap(root).cell[1].right)}

(* ------------------------------------------------------------------ *)
(* C39: every instrumented operation terminates on every input: a call  *)
(* of a sort or a search on the array (binary_search on an unsorted     *)
(* array too), of search_linked_list, or of insert_bst, search_bst or   *)
(* delete_bst, once entered, reaches its return.                        *)
(* ------------------------------------------------------------------ *)
HasReturned == frame.op # "none" /\ frame.pc = "returned"

C39_EveryCallReturns == InCall ~> HasReturned

(* C39, the case reached: binary_search has returned from an unsorted  *)
(* array after two probes, and delete_bst from a tree where the walk to *)
(* the successor had to advance is among the calls that return          *)
C39_UnsortedBinarySearchReturned ==
    /\ HasReturned /\ frame.op = "binary_search"
    /\ ~NonDecreasing(arr, Size(arr))
    /\ Len(steps) >= 3


(* ------------------------------------------------------------------ *)
(* C40: insert_sequential and insert_at_end are equivalent: applied to  *)
(* the same list with the same value they leave the same list, and      *)
(* they record a step with the same data, size, highlights, pointers    *)
(* and complexity (or, the buffer being full, both record none); the    *)
(* two steps differ in the action name and in the description.  It is   *)
(* checked on every list a run reaches (a run on another structure      *)
(* keeps the empty list it starts with) and, before the run has chosen  *)
(* its structure, on lists one node short of, at and beyond the         *)
(* MAX_SIZE nodes a step can show.                                      *)
(* ------------------------------------------------------------------ *)
SameButName(a, b) ==
    /\ a.data = b.data
    /\ a.size = b.size
    /\ a.highlighted = b.highlighted
    /\ a.pointers = b.pointers
    /\ a.complexity = b.complexity
    /\ a.action # b.action
    /\ a.description # b.description

EquivalentInserts(h, data, buf) ==
    LET e == insert_at_end(MAX_STEPS, h, data, buf)
        q == insert_sequential(MAX_STEPS, h, data, buf)
    IN  /\ e.head = q.head
        /\ e.overrun = q.overrun
        /\ Len(e.buf) = Len(q.buf)
        /\ IF Len(buf) < MAX_STEPS
           THEN /\ Len(e.buf) = Len(buf) + 1
                /\ SameButName(Last(e.buf), Last(q.buf))
                /\ SubSeq(e.buf, 1, Len(buf)) = SubSeq(q.buf, 1, Len(buf))
           ELSE e.buf = buf /\ q.buf = buf

LongLists == {[i \in 1..n |-> 1] : n \in {MAX_SIZE - 1, MAX_SIZE, MAX_SIZE + 1}}

C40_SequentialIsInsertAtEnd ==
    /\ family \in {"none", "linked_list"} =>
          \A data \in ListValues \cup {0} : EquivalentInserts(head, data, steps)
    /\ family = "none" => \A h \in LongLists : EquivalentInserts(h, 2, <<>>)

(* C40, the case reached: a run that called insert_at_end and then      *)
(* insert_sequential on the list it left, with both steps recorded      *)
C40_BothInsertsCalled ==
    /\ Len(log) = 2
    /\ log[1].op = "insert_at_end"
    /\ log[2].op = "insert_sequential"
    /\ Len(head) = 2
    /\ Len(steps) = 2
    /\ steps[1].action = "INSERT_END"
    /\ steps[2].action = "INSERT_SEQUENTIAL"
    /\ steps[2].highlighted[1] = 1

====
